---------------------------- MODULE Spec2Model ----------------------------
(***************************************************************************)
(* VAT calculation engine of the accounting backend                        *)
(* (backend/vat_service.py, backend/vat_endpoints.py).                     *)
(*                                                                         *)
(* Number representation.  The code computes with decimal.Decimal.  Every  *)
(* monetary amount is modelled as an integer number of MILLS (1/1000 of a  *)
(* currency unit), so 100.00 is 100000 and the sub-cent amount 1.005 is    *)
(* 1005; a whole number of cents is a multiple of 10.  Every percentage is *)
(* modelled as an integer number of HUNDREDTHS OF A PERCENT, so 23.00 is   *)
(* 2300 and 13.5 is 1350.  The decimal context of the code has 28          *)
(* significant digits: products and sums of the modelled magnitudes are    *)
(* exact, and a quotient rounded to 28 digits and then quantized to 0.01   *)
(* equals the exact quotient quantized to 0.01, so the integer arithmetic  *)
(* below is the arithmetic of the code.                                    *)
(*                                                                         *)
(* An Optional value is a sequence of length at most one: None is << >>    *)
(* and a present value v is << v >>.                                       *)
(***************************************************************************)
EXTENDS Integers, Sequences, FiniteSets

None == << >>

Some(v) == << v >>

Abs(n) == IF n < 0 THEN -n ELSE n

(***************************************************************************)
(* num/den rounded to an integer with decimal.ROUND_HALF_UP: to nearest,   *)
(* a tie going away from zero.  den # 0.                                   *)
(***************************************************************************)
RoundHalfTowardZero(num, den) ==
    LET q == Abs(num) \div Abs(den)
        r == Abs(num) % Abs(den)
        m == IF 2 * r > Abs(den) THEN q + 1 ELSE q
    IN  IF (num < 0) # (den < 0) THEN -m ELSE m

RoundHalfUp(num, den) ==
    LET q == Abs(num) \div Abs(den)
        r == Abs(num) % Abs(den)
        m == IF 2 * r >= Abs(den) THEN q + 1 ELSE q
    IN  IF (num < 0) # (den < 0) THEN -m ELSE m

(***************************************************************************)
(* (num/den).quantize(Decimal('0.01'), rounding=ROUND_HALF_UP), where      *)
(* num/den is an amount in CENTS; the result is in mills.                  *)
(***************************************************************************)
Quantize2(num, den) == 10 * RoundHalfUp(num, den)

(***************************************************************************)
(* The vat_rates reference table as recreate_vat_tables seeds it: SERIAL   *)
(* ids 1..8, rate_percentage NUMERIC(5,2), is_active DEFAULT TRUE.         *)
(***************************************************************************)
SeedVatRates ==
    << [rate_percentage |-> 2300, is_active |-> TRUE],
       [rate_percentage |-> 1350, is_active |-> TRUE],
       [rate_percentage |-> 900,  is_active |-> TRUE],
       [rate_percentage |-> 0,    is_active |-> TRUE],
       [rate_percentage |-> 0,    is_active |-> TRUE],
       [rate_percentage |-> 0,    is_active |-> TRUE],
       [rate_percentage |-> 0,    is_active |-> TRUE],
       [rate_percentage |-> 2100, is_active |-> TRUE] >>

VARIABLES
    connection_pool,  \* TRUE iff database.connection_pool is a pool (not None)
    vat_rates,        \* rows of the vat_rates table, indexed by id
    call,             \* the operation in progress or last completed, None when idle
    response,         \* Optional VATCalculationResponse returned by call
    raised,           \* "none", or the exception the call raised
    prev,             \* Optional [call, response] the present call was fed from
    lookups,          \* rate ids the calculation in call passed to get_vat_rate_percentage
    lookup,           \* Optional [vat_rate_id, returned] of a direct get_vat_rate_percentage
    created,          \* Optional [vat_rate, returned] of the last create_vat_rate
    expense,          \* Optional [op, quantity, rate, returned] of an expense amount call
    construction,     \* Optional [storage_backend, s3_init, mkdir, raised] of the construction
    manager,          \* the UnifiedAttachmentManager object, None until constructed
    validation,       \* Optional [filename, file_size, is_valid, error_message] of a validate_file
    saved,            \* Optional [original_filename, file_size, raised, returned] of the last save_attachment
    files,            \* the files under the local attachments directory
    s3_objects,       \* the objects in the S3 bucket
    attachments,      \* rows of the attachments table, indexed by id
    removed,          \* the local files, S3 objects and attachments rows deleted since
    access,           \* Optional outcome of the last delete_attachment or get_attachment
    migration,        \* the migrate_to_s3 call in progress or ended, None before it
    expenses,         \* rows of the expenses table
    invoices,         \* rows of the invoices table
    posted,           \* Optional [op, request, status, vat_calculation] of the last POST
    summary,          \* Optional [company_id, start_date, end_date, returned] of a VAT summary
    pooled,           \* the idle connections of the pool
    used,             \* the connections checked out of the pool
    transaction,      \* per connection, the calls whose changes are executed but not committed
    committed,        \* the calls whose changes are committed
    queries,          \* the number of execute_query calls begun
    query,            \* the execute_query call in progress, None between calls
    finished          \* Optional outcome of the last execute_query call

vat_vars == << connection_pool, vat_rates, call, response, raised, prev, lookups, lookup, created, expense >>

attachment_vars == << construction, manager, validation, saved, files, s3_objects, attachments, removed, access, migration >>

ledger_vars == << expenses, invoices, posted, summary >>

db_vars == << pooled, used, transaction, committed, queries, query, finished >>

vars == << vat_vars, attachment_vars, ledger_vars, db_vars >>

(***************************************************************************)
(* execute_query with fetch=True on "SELECT rate_percentage FROM vat_rates *)
(* WHERE id = %s AND is_active = true": the matching rows, or "raise" when *)
(* get_db_connection returns None.                                         *)
(***************************************************************************)
execute_query_select_rate(vat_rate_id, pool, rates) ==
    IF ~pool
    THEN [raise |-> TRUE, rows |-> << >>]
    ELSE [raise |-> FALSE,
          rows  |-> IF vat_rate_id \in DOMAIN rates /\ rates[vat_rate_id].is_active
                    THEN << rates[vat_rate_id].rate_percentage >>
                    ELSE << >>]

get_vat_rate_percentage_IgnoringActive(vat_rate_id, pool, rates) ==
    IF pool /\ vat_rate_id \in DOMAIN rates THEN Some(rates[vat_rate_id].rate_percentage) ELSE None

get_vat_rate_percentage(vat_rate_id, pool, rates) ==
    LET result == execute_query_select_rate(vat_rate_id, pool, rates)
    IN  IF result.raise THEN None
        ELSE IF Len(result.rows) > 0 THEN Some(result.rows[1])
        ELSE None

\* Python truthiness of an Optional[int] / Optional number
Truthy(opt) == opt # None /\ opt[1] # 0

DefaultVatRate == 2300

DefaultBusinessUsage == 10000

(***************************************************************************)
(* Lines 115-120 / 151-156: the percentage the calculation uses.           *)
(***************************************************************************)
NeedsLookup_IdFirst(vat_rate_id, vat_rate_percentage) == Truthy(vat_rate_id)

\* "if vat_rate_percentage is None and vat_rate_id:"
NeedsLookup(vat_rate_id, vat_rate_percentage) == vat_rate_percentage = None /\ Truthy(vat_rate_id)

\* The calls of get_vat_rate_percentage one calculation makes
LookupsOf(vat_rate_id, vat_rate_percentage) == IF NeedsLookup(vat_rate_id, vat_rate_percentage) THEN << vat_rate_id[1] >> ELSE << >>

ResolveRate_DefaultStandardOfTable(vat_rate_id, vat_rate_percentage, pool, rates) ==
    LET looked == IF NeedsLookup(vat_rate_id, vat_rate_percentage)
                  THEN get_vat_rate_percentage(vat_rate_id[1], pool, rates)
                  ELSE vat_rate_percentage
    IN  IF looked = None THEN (IF pool THEN rates[Len(rates)].rate_percentage ELSE 0) ELSE looked[1]

ResolveRate(vat_rate_id, vat_rate_percentage, pool, rates) ==
    LET looked == IF NeedsLookup(vat_rate_id, vat_rate_percentage)
                  THEN get_vat_rate_percentage(vat_rate_id[1], pool, rates)
                  ELSE vat_rate_percentage
    IN  IF looked = None THEN DefaultVatRate ELSE looked[1]

\* The keyword default business_usage_percentage = Decimal('100.00')
ResolveUsage(business_usage_percentage) ==
    IF business_usage_percentage = None THEN DefaultBusinessUsage
    ELSE business_usage_percentage[1]

Returned(r) == [raised |-> "none", response |-> Some(r)]

Raised(e) == [raised |-> e, response |-> None]


VATCalculationResponse(net, pct, vat, gross, deductible, usage) ==
    [net_amount                |-> net,
     vat_rate_percentage       |-> pct,
     vat_amount                |-> vat,
     gross_amount              |-> gross,
     deductible_amount         |-> deductible,
     business_usage_percentage |-> usage]

(***************************************************************************)
(* VATService.calculate_vat.  net_amount * pct / 100 in cents is           *)
(* net_mills * pct_hundredths / 100000.                                    *)
(***************************************************************************)
calculate_vat_NetQuantized(net_amount, vat_rate_id, vat_rate_percentage, business_usage_percentage, pool, rates) ==
    LET pct        == ResolveRate(vat_rate_id, vat_rate_percentage, pool, rates)
        usage      == ResolveUsage(business_usage_percentage)
        vat_amount == Quantize2(net_amount * pct, 100000)
        gross      == net_amount + vat_amount
        deductible == Quantize2(net_amount * usage, 100000)
    IN  Returned(VATCalculationResponse(Quantize2(net_amount, 10), pct, vat_amount,
                                        gross, deductible, usage))

calculate_vat_DeductibleByVatRate(net_amount, vat_rate_id, vat_rate_percentage, business_usage_percentage, pool, rates) ==
    LET pct        == ResolveRate(vat_rate_id, vat_rate_percentage, pool, rates)
        usage      == ResolveUsage(business_usage_percentage)
        vat_amount == Quantize2(net_amount * pct, 100000)
        gross      == net_amount + vat_amount
        deductible == Quantize2(net_amount * pct, 100000)
    IN  Returned(VATCalculationResponse(net_amount, pct, vat_amount, gross,
                                        deductible, usage))

calculate_vat_VatUnrounded(net_amount, vat_rate_id, vat_rate_percentage, business_usage_percentage, pool, rates) ==
    LET pct        == ResolveRate(vat_rate_id, vat_rate_percentage, pool, rates)
        usage      == ResolveUsage(business_usage_percentage)
        vat_amount == (net_amount * pct) \div 10000
        gross      == net_amount + vat_amount
        deductible == Quantize2(net_amount * usage, 100000)
    IN  Returned(VATCalculationResponse(net_amount, pct, vat_amount, gross,
                                        deductible, usage))

calculate_vat(net_amount, vat_rate_id, vat_rate_percentage, business_usage_percentage, pool, rates) ==
    LET pct        == ResolveRate(vat_rate_id, vat_rate_percentage, pool, rates)
        usage      == ResolveUsage(business_usage_percentage)
        vat_amount == Quantize2(net_amount * pct, 100000)
        gross      == net_amount + vat_amount
        deductible == Quantize2(net_amount * usage, 100000)
    IN  Returned(VATCalculationResponse(net_amount, pct, vat_amount, gross,
                                        deductible, usage))

(***************************************************************************)
(* VATService.calculate_vat_from_gross.  vat_multiplier = 1 + pct/100 is   *)
(* (10000 + pct_hundredths) / 10000, so gross / vat_multiplier in cents is *)
(* gross_mills * 1000 / (10000 + pct_hundredths).  Decimal division by a   *)
(* zero multiplier raises DivisionByZero, or InvalidOperation for 0 / 0.   *)
(***************************************************************************)
calculate_vat_from_gross_Discount(gross_amount, vat_rate_id, vat_rate_percentage, business_usage_percentage, pool, rates) ==
    LET pct        == ResolveRate(vat_rate_id, vat_rate_percentage, pool, rates)
        usage      == ResolveUsage(business_usage_percentage)
        net        == Quantize2(gross_amount * (10000 - pct), 100000)
        vat_amount == gross_amount - net
        deductible == Quantize2(net * usage, 100000)
    IN  Returned(VATCalculationResponse(net, pct, vat_amount, gross_amount,
                                        deductible, usage))

calculate_vat_from_gross_VatOfGross(gross_amount, vat_rate_id, vat_rate_percentage, business_usage_percentage, pool, rates) ==
    LET pct            == ResolveRate(vat_rate_id, vat_rate_percentage, pool, rates)
        usage          == ResolveUsage(business_usage_percentage)
        vat_multiplier == 10000 + pct
        net            == Quantize2(gross_amount * 1000, vat_multiplier)
        vat_amount     == Quantize2(net * pct, 100000)
        deductible     == Quantize2(net * usage, 100000)
    IN  IF vat_multiplier = 0
        THEN Raised(IF gross_amount = 0 THEN "InvalidOperation" ELSE "DivisionByZero")
        ELSE Returned(VATCalculationResponse(net, pct, vat_amount, gross_amount,
                                             deductible, usage))

calculate_vat_from_gross_DeductibleOfGross(gross_amount, vat_rate_id, vat_rate_percentage, business_usage_percentage, pool, rates) ==
    LET pct            == ResolveRate(vat_rate_id, vat_rate_percentage, pool, rates)
        usage          == ResolveUsage(business_usage_percentage)
        vat_multiplier == 10000 + pct
        net            == Quantize2(gross_amount * 1000, vat_multiplier)
        vat_amount     == gross_amount - net
        deductible     == Quantize2(gross_amount * usage, 100000)
    IN  IF vat_multiplier = 0
        THEN Raised(IF gross_amount = 0 THEN "InvalidOperation" ELSE "DivisionByZero")
        ELSE Returned(VATCalculationResponse(net, pct, vat_amount, gross_amount,
                                             deductible, usage))

calculate_vat_from_gross_Truncating(gross_amount, vat_rate_id, vat_rate_percentage, business_usage_percentage, pool, rates) ==
    LET pct            == ResolveRate(vat_rate_id, vat_rate_percentage, pool, rates)
        usage          == ResolveUsage(business_usage_percentage)
        vat_multiplier == 10000 + pct
        net            == 10 * ((gross_amount * 1000) \div vat_multiplier)
        vat_amount     == gross_amount - net
        deductible     == Quantize2(net * usage, 100000)
    IN  IF vat_multiplier = 0
        THEN Raised(IF gross_amount = 0 THEN "InvalidOperation" ELSE "DivisionByZero")
        ELSE Returned(VATCalculationResponse(net, pct, vat_amount, gross_amount,
                                             deductible, usage))

calculate_vat_from_gross(gross_amount, vat_rate_id, vat_rate_percentage, business_usage_percentage, pool, rates) ==
    LET pct            == ResolveRate(vat_rate_id, vat_rate_percentage, pool, rates)
        usage          == ResolveUsage(business_usage_percentage)
        vat_multiplier == 10000 + pct
        net            == Quantize2(gross_amount * 1000, vat_multiplier)
        vat_amount     == gross_amount - net
        deductible     == Quantize2(net * usage, 100000)
    IN  IF vat_multiplier = 0
        THEN Raised(IF gross_amount = 0 THEN "InvalidOperation" ELSE "DivisionByZero")
        ELSE Returned(VATCalculationResponse(net, pct, vat_amount, gross_amount,
                                             deductible, usage))

(***************************************************************************)
(* POST /vat/calculate.  The float query parameters become Decimal through *)
(* Decimal(str(x)), which keeps the value of a short decimal literal; the  *)
(* percentage is passed on only when it is truthy, so 0.0 becomes None.    *)
(***************************************************************************)
post_vat_calculate_percentage(vat_rate_percentage) == IF Truthy(vat_rate_percentage) THEN vat_rate_percentage ELSE None

post_vat_calculate(net_amount, vat_rate_id, vat_rate_percentage, business_usage_percentage, pool, rates) ==
    calculate_vat(net_amount,
                  vat_rate_id,
                  post_vat_calculate_percentage(vat_rate_percentage),
                  Some(ResolveUsage(business_usage_percentage)),
                  pool, rates)

(***************************************************************************)
(* execute_query with fetch=False on "INSERT INTO vat_rates ... RETURNING  *)
(* id": raises when get_db_connection returns None, else executes, commits *)
(* and returns cursor.rowcount; the SERIAL id is the next index.           *)
(***************************************************************************)
execute_query_insert_rate(vat_rate, pool, rates) ==
    IF ~pool
    THEN [raise |-> TRUE, rowcount |-> 0, vat_rates |-> rates]
    ELSE [raise |-> FALSE, rowcount |-> 1, vat_rates |-> Append(rates, vat_rate)]

(***************************************************************************)
(* VATService.create_vat_rate.  result is the integer rowcount, so         *)
(* "result and len(result) > 0" raises TypeError for a non-zero rowcount;  *)
(* every exception is caught and None returned.                            *)
(***************************************************************************)
create_vat_rate(vat_rate, pool, rates) ==
    LET result == execute_query_insert_rate(vat_rate, pool, rates)
    IN  [returned |-> None, vat_rates |-> result.vat_rates]

(***************************************************************************)
(* Expense amounts.  km and days are in hundredths, rate_per_km in         *)
(* ten-thousandths of a unit, daily_rate in mills; the results in mills.   *)
(***************************************************************************)
DefaultMileageRate == 3708

calculate_mileage_expense_Truncating(km, rate_per_km) == 10 * ((km * (IF rate_per_km = None THEN DefaultMileageRate ELSE rate_per_km[1])) \div 10000)

calculate_mileage_expense(km, rate_per_km) == Quantize2(km * (IF rate_per_km = None THEN DefaultMileageRate ELSE rate_per_km[1]), 10000)

calculate_eworker_expense_WholeDays(days, daily_rate) == Quantize2((days \div 100) * daily_rate, 10)

calculate_eworker_expense(days, daily_rate) == Quantize2(days * daily_rate, 1000)

(***************************************************************************)
(* Inputs.  Amounts in mills, percentages in hundredths of a percent.      *)
(***************************************************************************)
MaxCents == 40

WholeCentAmounts == { 10 * c : c \in 0 .. MaxCents }

SubCentAmounts == { 5, 15, 125, 1005 }

NegativeAmounts == { -10, -1000 }

WorkedAmounts == { 100000, 123000 }

Percentages == { 0, 480, 900, 1350, 2100, 2300, 5000, 10000, 25000 }

NegativePercentages == { -2300, -10000 }

\* 9 is the id the first create_vat_rate inserts
RateIds == { None, Some(0), Some(1), Some(2), Some(4), Some(9), Some(99) }

\* <<vat_rate_id, vat_rate_percentage>> as a caller passes them
RateArgs ==
    ({ None } \X { Some(p) : p \in Percentages \cup NegativePercentages })
    \cup (RateIds \X { None })
    \cup ({ Some(2) } \X { Some(2300), Some(0) })

UsageArgs == { None, Some(0), Some(2500), Some(5000), Some(10000),
               Some(15000), Some(-1000) }

WorkedRateArgs == { << None, Some(2300) >>, << Some(1), None >>, << None, None >> }

WorkedUsageArgs == { None, Some(10000), Some(5000), Some(15000) }

Inputs ==
    ((WholeCentAmounts \cup SubCentAmounts \cup NegativeAmounts)
        \X RateArgs \X UsageArgs)
    \cup (WorkedAmounts \X WorkedRateArgs \X WorkedUsageArgs)

\* create_vat_rate is called at most MaxNewRates times with a working pool
MaxNewRates == 1

NewVatRates == { [rate_percentage |-> 480, is_active |-> a] : a \in BOOLEAN }

\* km in hundredths of a kilometre; rate_per_km in ten-thousandths, None = omitted
MileageKm == { 0, 1, 50, 100, 150, 1234, 10000 }

MileageRates == { None, Some(0), Some(50), Some(3708), Some(5000) }

\* days in hundredths of a day; daily_rate in mills
EworkerDays == { 0, 50, 100, 250, 333, 500 }

EworkerRates == { 0, 10, 12345, 99990, 250000 }

Call(op, amount, rate, usage) ==
    [op                        |-> op,
     amount                    |-> amount,
     vat_rate_id               |-> rate[1],
     vat_rate_percentage       |-> rate[2],
     business_usage_percentage |-> usage]

\* database.py:38-39: the pool opens minconn connections and grows to at most
\* MaxConnections
minconn == 1

MaxConnections == 2

Init ==
    /\ connection_pool \in BOOLEAN
    /\ vat_rates = SeedVatRates
    /\ call = None
    /\ response = None
    /\ raised = "none"
    /\ prev = None
    /\ lookups = << >>
    /\ lookup = None
    /\ created = None
    /\ expense = None
    /\ construction = None
    /\ manager = None
    /\ validation = None
    /\ saved = None
    /\ files = << >>
    /\ s3_objects = << >>
    /\ attachments = << >>
    /\ removed = [files |-> { }, s3_objects |-> { }, attachments |-> { }]
    /\ access = None
    /\ migration = None
    /\ expenses = << >>
    /\ invoices = << >>
    /\ posted = None
    /\ summary = None
    /\ pooled = IF connection_pool THEN 1 .. minconn ELSE { }
    /\ used = { }
    /\ transaction = [conn \in 1 .. MaxConnections |-> { }]
    /\ committed = { }
    /\ queries = 0
    /\ query = None
    /\ finished = None

\* No operation is in progress or awaiting its caller
Idle == call = None /\ lookup = None /\ expense = None

Finish(c, out, from, looked) ==
    /\ call' = Some(c)
    /\ response' = out.response
    /\ raised' = out.raised
    /\ prev' = from
    /\ lookups' = looked
    /\ UNCHANGED << connection_pool, vat_rates, lookup, created, expense, attachment_vars, ledger_vars, db_vars >>

CalculateVat ==
    /\ Idle
    /\ \E in \in Inputs :
          Finish(Call("calculate_vat", in[1], in[2], in[3]),
                 calculate_vat(in[1], in[2][1], in[2][2], in[3],
                               connection_pool, vat_rates),
                 None, LookupsOf(in[2][1], in[2][2]))

CalculateVatFromGross ==
    /\ Idle
    /\ \E in \in Inputs :
          Finish(Call("calculate_vat_from_gross", in[1], in[2], in[3]),
                 calculate_vat_from_gross(in[1], in[2][1], in[2][2], in[3],
                                          connection_pool, vat_rates),
                 None, LookupsOf(in[2][1], in[2][2]))

PostVatCalculate ==
    /\ Idle
    /\ \E in \in Inputs :
          /\ in[2][1] # Some(0)
          /\ Finish(Call("POST /vat/calculate", in[1], in[2], in[3]),
                    post_vat_calculate(in[1], in[2][1], in[2][2], in[3],
                                       connection_pool, vat_rates),
                    None, LookupsOf(in[2][1], post_vat_calculate_percentage(in[2][2])))

(***************************************************************************)
(* A caller feeds the net_amount of a calculate_vat_from_gross response    *)
(* back into calculate_vat with the same rate and usage arguments, and a   *)
(* gross_amount of a calculate_vat response into calculate_vat_from_gross. *)
(***************************************************************************)
Exchange == [call |-> call[1], response |-> response[1]]

CalculateVatOfNet ==
    /\ call # None /\ response # None /\ prev = None
    /\ call[1].op = "calculate_vat_from_gross"
    /\ LET c == call[1]
       IN  Finish([c EXCEPT !.op = "calculate_vat",
                            !.amount = response[1].net_amount],
                  calculate_vat(response[1].net_amount, c.vat_rate_id,
                                c.vat_rate_percentage, c.business_usage_percentage,
                                connection_pool, vat_rates),
                  Some(Exchange), LookupsOf(c.vat_rate_id, c.vat_rate_percentage))

CalculateVatFromGrossOfGross ==
    /\ call # None /\ response # None /\ prev = None
    /\ call[1].op = "calculate_vat"
    /\ LET c == call[1]
       IN  Finish([c EXCEPT !.op = "calculate_vat_from_gross",
                            !.amount = response[1].gross_amount],
                  calculate_vat_from_gross(response[1].gross_amount, c.vat_rate_id,
                                           c.vat_rate_percentage,
                                           c.business_usage_percentage,
                                           connection_pool, vat_rates),
                  Some(Exchange), LookupsOf(c.vat_rate_id, c.vat_rate_percentage))

CreateVatRate ==
    /\ Idle
    /\ Len(vat_rates) < Len(SeedVatRates) + MaxNewRates
    /\ \E v \in NewVatRates :
          LET out == create_vat_rate(v, connection_pool, vat_rates)
          IN  /\ vat_rates' = out.vat_rates
              /\ created' = Some([vat_rate |-> v, returned |-> out.returned])
    /\ UNCHANGED << connection_pool, call, response, raised, prev, lookups, lookup, expense, attachment_vars, ledger_vars, db_vars >>

GetVatRatePercentage ==
    /\ Idle
    /\ \E id \in RateIds \ { None } :
          lookup' = Some([vat_rate_id |-> id[1],
                          returned    |-> get_vat_rate_percentage(id[1], connection_pool, vat_rates)])
    /\ UNCHANGED << connection_pool, vat_rates, call, response, raised, prev, lookups, created, expense, attachment_vars, ledger_vars, db_vars >>

CalculateMileageExpense ==
    /\ Idle
    /\ \E km \in MileageKm, rate \in MileageRates :
          expense' = Some([op |-> "calculate_mileage_expense", quantity |-> km, rate |-> rate,
                           returned |-> calculate_mileage_expense(km, rate)])
    /\ UNCHANGED << connection_pool, vat_rates, call, response, raised, prev, lookups, lookup, created, attachment_vars, ledger_vars, db_vars >>

CalculateEworkerExpense ==
    /\ Idle
    /\ \E days \in EworkerDays, rate \in EworkerRates :
          expense' = Some([op |-> "calculate_eworker_expense", quantity |-> days, rate |-> Some(rate),
                           returned |-> calculate_eworker_expense(days, rate)])
    /\ UNCHANGED << connection_pool, vat_rates, call, response, raised, prev, lookups, lookup, created, attachment_vars, ledger_vars, db_vars >>

Next ==
    \/ CalculateVat
    \/ CalculateVatFromGross
    \/ PostVatCalculate
    \/ CalculateVatOfNet
    \/ CalculateVatFromGrossOfGross
    \/ CreateVatRate
    \/ GetVatRatePercentage
    \/ CalculateMileageExpense
    \/ CalculateEworkerExpense

Spec == Init /\ [][Next]_vars

(***************************************************************************)
(* Attachments.  A filename is a sequence of one-character strings, a size *)
(* a number of bytes.                                                      *)
(***************************************************************************)
UpperCase == << "A", "B", "C", "D", "E", "F", "G", "H", "I", "J", "K", "L", "M", "N", "O", "P", "Q", "R", "S", "T", "U", "V", "W", "X", "Y", "Z" >>

LowerCase == << "a", "b", "c", "d", "e", "f", "g", "h", "i", "j", "k", "l", "m", "n", "o", "p", "q", "r", "s", "t", "u", "v", "w", "x", "y", "z" >>

\* str.lower()
lower(s) == [i \in DOMAIN s |-> IF \E k \in DOMAIN UpperCase : UpperCase[k] = s[i] THEN LowerCase[CHOOSE k \in DOMAIN UpperCase : UpperCase[k] = s[i]] ELSE s[i]]

\* str.rfind(ch): the 0-based index of the last ch, -1 when there is none
rfind(s, ch) == IF \E i \in DOMAIN s : s[i] = ch THEN (CHOOSE i \in DOMAIN s : s[i] = ch /\ \A j \in DOMAIN s : j > i => s[j] # ch) - 1 ELSE -1

RECURSIVE lstrip(_, _)
\* str.lstrip(ch)
lstrip(s, ch) == IF s # << >> /\ s[1] = ch THEN lstrip(Tail(s), ch) ELSE s

\* PurePath.name: the final path component
PathName(filename) == SubSeq(filename, rfind(filename, "/") + 2, Len(filename))

\* PurePath.suffix: from the last dot of the name, unless that dot is the
\* first or the last character of the name
suffix(filename) ==
    LET name == PathName(filename)
        i    == rfind(name, ".")
    IN  IF 0 < i /\ i < Len(name) - 1 THEN SubSeq(name, i + 1, Len(name)) ELSE << >>

MB == 1024 * 1024

SUPPORTED_TYPES ==
    { [extension |-> << "p", "d", "f" >>,      category |-> "document",    max_size |-> 50 * MB],
      [extension |-> << "d", "o", "c" >>,      category |-> "document",    max_size |-> 50 * MB],
      [extension |-> << "d", "o", "c", "x" >>, category |-> "document",    max_size |-> 50 * MB],
      [extension |-> << "t", "x", "t" >>,      category |-> "document",    max_size |-> 10 * MB],
      [extension |-> << "r", "t", "f" >>,      category |-> "document",    max_size |-> 10 * MB],
      [extension |-> << "o", "d", "t" >>,      category |-> "document",    max_size |-> 50 * MB],
      [extension |-> << "x", "l", "s" >>,      category |-> "spreadsheet", max_size |-> 50 * MB],
      [extension |-> << "x", "l", "s", "x" >>, category |-> "spreadsheet", max_size |-> 50 * MB],
      [extension |-> << "c", "s", "v" >>,      category |-> "spreadsheet", max_size |-> 10 * MB],
      [extension |-> << "o", "d", "s" >>,      category |-> "spreadsheet", max_size |-> 50 * MB],
      [extension |-> << "j", "p", "g" >>,      category |-> "image",       max_size |-> 20 * MB],
      [extension |-> << "j", "p", "e", "g" >>, category |-> "image",       max_size |-> 20 * MB],
      [extension |-> << "p", "n", "g" >>,      category |-> "image",       max_size |-> 20 * MB],
      [extension |-> << "g", "i", "f" >>,      category |-> "image",       max_size |-> 10 * MB],
      [extension |-> << "b", "m", "p" >>,      category |-> "image",       max_size |-> 20 * MB],
      [extension |-> << "t", "i", "f", "f" >>, category |-> "image",       max_size |-> 20 * MB],
      [extension |-> << "w", "e", "b", "p" >>, category |-> "image",       max_size |-> 20 * MB],
      [extension |-> << "z", "i", "p" >>,      category |-> "archive",     max_size |-> 100 * MB],
      [extension |-> << "r", "a", "r" >>,      category |-> "archive",     max_size |-> 100 * MB],
      [extension |-> << "7", "z" >>,           category |-> "archive",     max_size |-> 100 * MB],
      [extension |-> << "t", "a", "r" >>,      category |-> "archive",     max_size |-> 100 * MB],
      [extension |-> << "g", "z" >>,           category |-> "archive",     max_size |-> 100 * MB],
      [extension |-> << "x", "m", "l" >>,      category |-> "data",        max_size |-> 10 * MB],
      [extension |-> << "j", "s", "o", "n" >>, category |-> "data",        max_size |-> 10 * MB] }

dangerous_extensions ==
    { << "e", "x", "e" >>, << "b", "a", "t" >>, << "c", "m", "d" >>, << "c", "o", "m" >>,
      << "s", "c", "r" >>, << "v", "b", "s" >>, << "j", "s" >> }

get_file_info_CaseSensitive(filename) ==
    LET file_ext == lstrip(suffix(filename), ".")
    IN  IF \E t \in SUPPORTED_TYPES : t.extension = file_ext
        THEN CHOOSE t \in SUPPORTED_TYPES : t.extension = file_ext
        ELSE [extension |-> file_ext, category |-> "other", max_size |-> 25 * MB]

get_file_info(filename) ==
    LET file_ext == lstrip(lower(suffix(filename)), ".")
    IN  IF \E t \in SUPPORTED_TYPES : t.extension = file_ext
        THEN CHOOSE t \in SUPPORTED_TYPES : t.extension = file_ext
        ELSE [extension |-> file_ext, category |-> "other", max_size |-> 25 * MB]

validate_file(filename, file_size) ==
    IF filename = << >> THEN << FALSE, "Filename is required" >>
    ELSE LET file_info == get_file_info(filename)
         IN  IF file_size > file_info.max_size
             THEN << FALSE, "File size exceeds maximum allowed size" >>
             ELSE IF file_info.extension \in dangerous_extensions
             THEN << FALSE, "File type is not allowed for security reasons" >>
             ELSE << TRUE, "File is valid" >>

S3Backend == << "s", "3" >>

LocalBackend == << "l", "o", "c", "a", "l" >>

(***************************************************************************)
(* UnifiedAttachmentManager.__init__.  s3_init is whether the constructor  *)
(* of S3StorageManager returns, mkdir whether _setup_local_storage can     *)
(* create its directories.  The result is the object (None when __init__   *)
(* raises) and the exception.                                              *)
(***************************************************************************)
UnifiedAttachmentManager_KeepingS3(storage_backend, s3_init, mkdir) ==
    IF lower(storage_backend) = S3Backend /\ s3_init
    THEN [object |-> Some([storage_backend |-> S3Backend, s3_manager |-> TRUE, local_storage |-> FALSE]), raised |-> "none"]
    ELSE IF mkdir
    THEN [object |-> Some([storage_backend |-> lower(storage_backend), s3_manager |-> FALSE, local_storage |-> TRUE]), raised |-> "none"]
    ELSE [object |-> None, raised |-> "OSError"]

UnifiedAttachmentManager(storage_backend, s3_init, mkdir) ==
    IF lower(storage_backend) = S3Backend /\ s3_init
    THEN [object |-> Some([storage_backend |-> S3Backend, s3_manager |-> TRUE, local_storage |-> FALSE]), raised |-> "none"]
    ELSE IF mkdir
    THEN [object |-> Some([storage_backend |-> IF lower(storage_backend) = S3Backend THEN LocalBackend ELSE lower(storage_backend), s3_manager |-> FALSE, local_storage |-> TRUE]), raised |-> "none"]
    ELSE [object |-> None, raised |-> "OSError"]

(***************************************************************************)
(* _save_metadata_to_db: the INSERT ... RETURNING id into attachments,     *)
(* which raises when no connection can be had.                             *)
(***************************************************************************)
save_metadata_to_db(row, pool, rows) ==
    IF ~pool
    THEN [raise |-> TRUE, id |-> 0, attachments |-> rows]
    ELSE [raise |-> FALSE, id |-> Len(rows) + 1, attachments |-> Append(rows, row)]

(***************************************************************************)
(* UnifiedAttachmentManager.save_attachment on manager self.  write is     *)
(* whether the local file can be written, upload whether the S3 upload     *)
(* succeeds.  The result is the exception or the returned dict, and the    *)
(* local files, S3 objects and attachments rows after the call.            *)
(***************************************************************************)
save_attachment(self, company_id, original_filename, file_size, write, upload, pool, local, s3, rows) ==
    LET unchanged(e) == [raised |-> e, returned |-> None, files |-> local, s3_objects |-> s3, attachments |-> rows]
        content      == [original_filename |-> original_filename, file_size |-> file_size]
        backend      == IF self.storage_backend = S3Backend THEN "s3" ELSE "local"
        stored       == IF backend = "s3" THEN [files |-> local, s3_objects |-> Append(s3, content)]
                        ELSE [files |-> Append(local, content), s3_objects |-> s3]
        file_path    == IF backend = "s3" THEN Len(s3) + 1 ELSE Len(local) + 1
        row          == [company_id |-> company_id, original_filename |-> original_filename, file_size |-> file_size, storage_backend |-> backend, file_path |-> file_path]
        saved_row    == save_metadata_to_db(row, pool, rows)
    IN  IF ~validate_file(original_filename, file_size)[1] THEN unchanged("ValueError")
        ELSE IF backend = "s3" /\ ~self.s3_manager THEN unchanged("AttributeError")
        ELSE IF backend = "s3" /\ ~upload THEN unchanged("Exception")
        ELSE IF backend = "local" /\ ~write THEN unchanged("OSError")
        ELSE IF saved_row.raise
        THEN [raised |-> "Exception", returned |-> None, files |-> stored.files, s3_objects |-> stored.s3_objects, attachments |-> rows]
        ELSE [raised |-> "none", returned |-> Some([id |-> saved_row.id, original_filename |-> original_filename, file_size |-> file_size, storage_backend |-> backend, file_path |-> file_path]), files |-> stored.files, s3_objects |-> stored.s3_objects, attachments |-> saved_row.attachments]

(***************************************************************************)
(* Inputs of the attachment operations.                                    *)
(***************************************************************************)
Filenames ==
    { << >>,
      << "t", "e", "s", "t", ".", "p", "d", "f" >>,
      << "r", "u", "n", ".", "e", "x", "e" >>,
      << "R", "U", "N", ".", "E", "X", "E" >>,
      << "a", ".", "j", "s" >>,
      << "x", ".", "B", "a", "t" >>,
      << ".", "e", "x", "e" >>,
      << "r", "u", "n", ".", "e", "x", "e", "." >>,
      << "n", ".", "t", "x", "t" >>,
      << "p", ".", "P", "N", "G" >>,
      << "a", ".", "t", "a", "r", ".", "g", "z" >>,
      << "d", ".", "b", "i", "n" >>,
      << "v", ".", "1", "/", "n", "o", "t", "e", "s" >> }

\* Sizes at and just above each max_size, and the 1024 bytes of the test
FileSizes == { 0, 1024 } \cup { m * MB + d : m \in { 10, 20, 25, 50, 100 }, d \in { 0, 1 } }

StorageBackends == { LocalBackend, S3Backend, << "S", "3" >> }

SavedFilenames == { << "t", "e", "s", "t", ".", "p", "d", "f" >>, << "r", "u", "n", ".", "e", "x", "e" >> }

SavedSizes == { 1024, 50 * MB + 1 }

\* save_attachment stores at most MaxSaves files
MaxSaves == 2

\* company_id of the attachments and of the callers
AttachmentCompanies == { 0, 7 }

AttachmentInit == Init

Construct ==
    /\ construction = None
    /\ \E storage_backend \in StorageBackends, s3_init \in BOOLEAN, mkdir \in BOOLEAN :
          LET out == UnifiedAttachmentManager(storage_backend, s3_init, mkdir)
          IN  /\ manager' = out.object
              /\ construction' = Some([storage_backend |-> storage_backend, s3_init |-> s3_init, mkdir |-> mkdir, raised |-> out.raised])
    /\ UNCHANGED << vat_vars, ledger_vars, db_vars, validation, saved, files, s3_objects, attachments, removed, access, migration >>

ValidateFile ==
    /\ manager # None
    /\ access = None
    /\ migration = None
    /\ validation = None
    /\ saved = None
    /\ \E filename \in Filenames, file_size \in FileSizes :
          LET out == validate_file(filename, file_size)
          IN  validation' = Some([filename |-> filename, file_size |-> file_size, is_valid |-> out[1], error_message |-> out[2]])
    /\ UNCHANGED << vat_vars, ledger_vars, db_vars, construction, manager, saved, files, s3_objects, attachments, removed, access, migration >>

SaveAttachment ==
    /\ manager # None
    /\ access = None
    /\ migration = None
    /\ validation = None
    /\ Len(files) + Len(s3_objects) < MaxSaves
    /\ \E company_id \in AttachmentCompanies, filename \in SavedFilenames, file_size \in SavedSizes, write \in BOOLEAN, upload \in BOOLEAN :
          LET out == save_attachment(manager[1], company_id, filename, file_size, write, upload, connection_pool, files, s3_objects, attachments)
          IN  /\ saved' = Some([original_filename |-> filename, file_size |-> file_size, raised |-> out.raised, returned |-> out.returned])
              /\ files' = out.files
              /\ s3_objects' = out.s3_objects
              /\ attachments' = out.attachments
    /\ UNCHANGED << vat_vars, ledger_vars, db_vars, construction, manager, validation, removed, access, migration >>

(***************************************************************************)
(* Reading, deleting and migrating attachments.  A local file is files[p]  *)
(* for the path p, an S3 object s3_objects[k] for the key k, unless        *)
(* removed since; a row is attachments[id] unless deleted since.           *)
(***************************************************************************)
LocalFileExists(path, local, gone) == path \in DOMAIN local /\ path \notin gone.files

S3ObjectExists(key, s3, gone) == key \in DOMAIN s3 /\ key \notin gone.s3_objects

RowExists(id, rows, gone) == id \in DOMAIN rows /\ id \notin gone.attachments

\* A lookup that leaves the company out of the WHERE clause
select_attachment_Unscoped(attachment_id, company_id, pool, rows, gone) ==
    IF ~pool THEN [raise |-> TRUE, result |-> << >>]
    ELSE IF RowExists(attachment_id, rows, gone)
    THEN [raise |-> FALSE, result |-> << rows[attachment_id] >>]
    ELSE [raise |-> FALSE, result |-> << >>]

\* "SELECT ... FROM attachments WHERE id = %s", with " AND company_id = %s"
\* appended when company_id is not None
select_attachment(attachment_id, company_id, pool, rows, gone) ==
    IF ~pool THEN [raise |-> TRUE, result |-> << >>]
    ELSE IF /\ RowExists(attachment_id, rows, gone)
            /\ (company_id # None => rows[attachment_id].company_id = company_id[1])
    THEN [raise |-> FALSE, result |-> << rows[attachment_id] >>]
    ELSE [raise |-> FALSE, result |-> << >>]

\* "DELETE FROM attachments WHERE id = %s", with the same company clause
delete_row(attachment_id, company_id, rows, gone) ==
    IF /\ RowExists(attachment_id, rows, gone)
       /\ (company_id # None => rows[attachment_id].company_id = company_id[1])
    THEN [gone EXCEPT !.attachments = @ \cup { attachment_id }]
    ELSE gone

(***************************************************************************)
(* UnifiedAttachmentManager.delete_attachment.  s3_delete and unlink are   *)
(* whether the storage lets the object or the file be removed; a failure   *)
(* of the storage is logged and the row is deleted all the same.           *)
(***************************************************************************)
delete_attachment(self, attachment_id, company_id, s3_delete, unlink, pool, local, s3, rows, gone) ==
    LET found == select_attachment(attachment_id, company_id, pool, rows, gone)
        info  == found.result[1]
        unstored ==
            IF info.storage_backend = "s3"
            THEN IF self.s3_manager /\ s3_delete /\ S3ObjectExists(info.file_path, s3, gone)
                 THEN [gone EXCEPT !.s3_objects = @ \cup { info.file_path }]
                 ELSE gone
            ELSE IF LocalFileExists(info.file_path, local, gone) /\ unlink
                 THEN [gone EXCEPT !.files = @ \cup { info.file_path }]
                 ELSE gone
    IN  IF found.raise THEN [raised |-> "Exception", returned |-> None, removed |-> gone]
        ELSE IF found.result = << >> THEN [raised |-> "none", returned |-> Some(FALSE), removed |-> gone]
        ELSE [raised |-> "none", returned |-> Some(TRUE), removed |-> delete_row(attachment_id, company_id, rows, unstored)]

(***************************************************************************)
(* UnifiedAttachmentManager.get_attachment.  read is whether the storage   *)
(* was read; the content is returned when it was.                          *)
(***************************************************************************)
get_attachment(self, attachment_id, company_id, pool, local, s3, rows, gone) ==
    LET found == select_attachment(attachment_id, company_id, pool, rows, gone)
        info  == found.result[1]
    IN  IF found.raise THEN [raised |-> "Exception", returned |-> None, read |-> FALSE]
        ELSE IF found.result = << >> THEN [raised |-> "FileNotFoundError", returned |-> None, read |-> FALSE]
        ELSE IF info.storage_backend = "s3"
        THEN IF self.s3_manager /\ S3ObjectExists(info.file_path, s3, gone)
             THEN [raised |-> "none", returned |-> Some(s3[info.file_path]), read |-> TRUE]
             ELSE [raised |-> "FileNotFoundError", returned |-> None, read |-> FALSE]
        ELSE IF LocalFileExists(info.file_path, local, gone)
             THEN [raised |-> "none", returned |-> Some(local[info.file_path]), read |-> TRUE]
             ELSE [raised |-> "FileNotFoundError", returned |-> None, read |-> FALSE]

(***************************************************************************)
(* UnifiedAttachmentManager.migrate_to_s3, statement by statement.  The    *)
(* query is "... WHERE storage_backend = 'local' OR storage_backend IS     *)
(* NULL", with " AND company_id = %s" appended for a company: AND binds    *)
(* tighter than OR, so the company restricts the NULL rows only.           *)
(***************************************************************************)
select_local_attachments(company_id, rows, gone) ==
    LET ids == [id \in 1 .. Len(rows) |-> id]
        Selected(id) ==
            /\ RowExists(id, rows, gone)
            /\ \/ rows[id].storage_backend = "local"
               \/ /\ rows[id].storage_backend = "NULL"
                  /\ (company_id # None => rows[id].company_id = company_id[1])
    IN  SelectSeq(ids, Selected)

\* The attachment the loop is at
MigratedRow(m) == m.result_list[m.row]

\* The next iteration of "for row in result_list", or the return after the last
NextRow(m) ==
    IF m.row < Len(m.result_list)
    THEN [m EXCEPT !.row = @ + 1, !.pc = "read", !.s3_key = None]
    ELSE [m EXCEPT !.pc = "returned", !.s3_key = None]

\* "except Exception as e": the attachment is counted as failed
RowFailed(m) == NextRow([m EXCEPT !.failed = @ + 1, !.errors = Append(@, MigratedRow(m))])

\* Lines 588-593: the statistics of a migration of result_list
migration_stats(company_id, result_list, rows) ==
    [pc |-> "read", result_list |-> result_list, row |-> 0, total_files |-> Len(result_list), migrated |-> 0,
     failed |-> 0, errors |-> << >>, s3_key |-> None, before |-> rows]

\* A migration that raised before its loop
NotMigrated(company_id, rows) == [migration_stats(company_id, << >>, rows) EXCEPT !.pc = "raised"]

\* Lines 567-593: the check of the backend, the query and the statistics
migrate_to_s3(self, company_id, pool, rows, gone) ==
    IF self.storage_backend # S3Backend \/ ~pool
    THEN NotMigrated(company_id, rows)
    ELSE NextRow(migration_stats(company_id, select_local_attachments(company_id, rows, gone), rows))

\* An UPDATE that is skipped on the way to the unlink
migrate_update_KeepingRow(m, updated, rows) == [migration |-> [m EXCEPT !.pc = "unlink"], attachments |-> rows]

\* Lines 624-636: the UPDATE of the row, which raises when the query fails
migrate_update(m, updated, rows) ==
    IF updated
    THEN [migration   |-> [m EXCEPT !.pc = "unlink"],
          attachments |-> [rows EXCEPT ![MigratedRow(m)].storage_backend = "s3",
                                       ![MigratedRow(m)].file_path = m.s3_key[1]]]
    ELSE [migration |-> RowFailed(m), attachments |-> rows]

AttachmentIds == 1 .. MaxSaves

CompanyArgs == { None } \cup { Some(c) : c \in AttachmentCompanies }

DeleteAttachment ==
    /\ manager # None
    /\ migration = None
    /\ \E attachment_id \in AttachmentIds, company_id \in CompanyArgs, s3_delete \in BOOLEAN, unlink \in BOOLEAN :
          LET out == delete_attachment(manager[1], attachment_id, company_id, s3_delete, unlink, connection_pool, files, s3_objects, attachments, removed)
          IN  /\ removed' = out.removed
              /\ access' = Some([op |-> "delete_attachment", attachment_id |-> attachment_id, company_id |-> company_id,
                                 raised |-> out.raised, returned |-> out.returned, read |-> FALSE, before |-> removed])
    /\ UNCHANGED << vat_vars, ledger_vars, db_vars, construction, manager, validation, saved, files, s3_objects, attachments, migration >>

GetAttachment ==
    /\ manager # None
    /\ migration = None
    /\ \E attachment_id \in AttachmentIds, company_id \in CompanyArgs :
          LET out == get_attachment(manager[1], attachment_id, company_id, connection_pool, files, s3_objects, attachments, removed)
          IN  access' = Some([op |-> "get_attachment", attachment_id |-> attachment_id, company_id |-> company_id,
                              raised |-> out.raised, returned |-> out.returned, read |-> out.read, before |-> removed])
    /\ UNCHANGED << vat_vars, ledger_vars, db_vars, construction, manager, validation, saved, files, s3_objects, attachments, removed, migration >>

\* storage_management_endpoints.migrate_to_s3 builds an S3 manager for the
\* call; the constructor falls back to local storage or raises as it does
MigrateToS3 ==
    /\ manager # None
    /\ migration = None
    /\ \E company_id \in CompanyArgs, s3_init \in BOOLEAN, mkdir \in BOOLEAN :
          LET s3_manager == UnifiedAttachmentManager(S3Backend, s3_init, mkdir)
          IN  migration' = IF s3_manager.object = None
                           THEN Some(NotMigrated(company_id, attachments))
                           ELSE Some(migrate_to_s3(s3_manager.object[1], company_id, connection_pool, attachments, removed))
    /\ UNCHANGED << vat_vars, ledger_vars, db_vars, construction, manager, validation, saved, files, s3_objects, attachments, removed, access >>

\* Lines 607-613: the local file is read, or is missing or unreadable
MigrateRead ==
    /\ migration # None
    /\ migration[1].pc = "read"
    /\ \E readable \in BOOLEAN :
          IF readable /\ LocalFileExists(attachments[MigratedRow(migration[1])].file_path, files, removed)
          THEN migration' = Some([migration[1] EXCEPT !.pc = "upload"])
          ELSE migration' = Some(RowFailed(migration[1]))
    /\ UNCHANGED << vat_vars, ledger_vars, db_vars, construction, manager, validation, saved, files, s3_objects, attachments, removed, access >>

\* Lines 615-622
MigrateUpload ==
    /\ migration # None
    /\ migration[1].pc = "upload"
    /\ \E upload \in BOOLEAN :
          IF upload
          THEN /\ s3_objects' = Append(s3_objects, files[attachments[MigratedRow(migration[1])].file_path])
               /\ migration' = Some([migration[1] EXCEPT !.pc = "update", !.s3_key = Some(Len(s3_objects) + 1)])
          ELSE /\ s3_objects' = s3_objects
               /\ migration' = Some(RowFailed(migration[1]))
    /\ UNCHANGED << vat_vars, ledger_vars, db_vars, construction, manager, validation, saved, files, attachments, removed, access >>

\* Lines 624-636
MigrateUpdate ==
    /\ migration # None
    /\ migration[1].pc = "update"
    /\ \E updated \in BOOLEAN :
          LET out == migrate_update(migration[1], updated, attachments)
          IN  /\ migration' = Some(out.migration)
              /\ attachments' = out.attachments
    /\ UNCHANGED << vat_vars, ledger_vars, db_vars, construction, manager, validation, saved, files, s3_objects, removed, access >>

\* Lines 638-646: the local file is deleted if it can be; the attachment
\* counts as migrated either way
MigrateUnlink ==
    /\ migration # None
    /\ migration[1].pc = "unlink"
    /\ \E unlink \in BOOLEAN :
          LET path == migration[1].before[MigratedRow(migration[1])].file_path
          IN  removed' = IF unlink THEN [removed EXCEPT !.files = @ \cup { path }] ELSE removed
    /\ migration' = Some(NextRow([migration[1] EXCEPT !.migrated = @ + 1]))
    /\ UNCHANGED << vat_vars, ledger_vars, db_vars, construction, manager, validation, saved, files, s3_objects, attachments, access >>

AttachmentNext ==
    \/ Construct
    \/ ValidateFile
    \/ SaveAttachment

AttachmentSpec == AttachmentInit /\ [][AttachmentNext]_vars

StoreInit == Init

\* Uploads, reads, deletions and the migration of the stored attachments
StoreNext ==
    \/ Construct
    \/ SaveAttachment
    \/ DeleteAttachment
    \/ GetAttachment
    \/ MigrateToS3
    \/ MigrateRead
    \/ MigrateUpload
    \/ MigrateUpdate
    \/ MigrateUnlink

StoreSpec == StoreInit /\ [][StoreNext]_vars

(***************************************************************************)
(* Enhanced expenses and invoices, and the VAT summary over them.  Dates   *)
(* are day numbers, None when the string does not parse.                   *)
(***************************************************************************)
\* execute_query with fetch=False: raises without a connection, else
\* executes, commits and returns cursor.rowcount
execute_query_rowcount(pool, rowcount) == IF ~pool THEN [raise |-> TRUE, result |-> 0] ELSE [raise |-> FALSE, result |-> rowcount]

\* "Decimal(str(x)) if x else None"
IfTruthy(opt) == IF Truthy(opt) THEN opt ELSE None

get_irish_mileage_rate == DefaultMileageRate

\* Lines 64-79 of create_enhanced_expense: the net amount of the request
expense_net_amount(request) ==
    IF request.expense_type = "eworker" /\ Truthy(request.eworker_days) /\ Truthy(request.eworker_rate)
    THEN calculate_eworker_expense(request.eworker_days[1], request.eworker_rate[1])
    ELSE IF request.expense_type = "mileage" /\ Truthy(request.mileage_km)
    THEN calculate_mileage_expense(request.mileage_km[1], Some(get_irish_mileage_rate))
    ELSE request.net_amount

\* "expense.business_usage_percentage or 100.0"
expense_business_usage(request) == IF Truthy(request.business_usage_percentage) THEN request.business_usage_percentage[1] ELSE DefaultBusinessUsage

(***************************************************************************)
(* POST /expenses/enhanced.  The result is the HTTP status, the body's     *)
(* vat_calculation and calculated_net_amount, and the expenses table.      *)
(***************************************************************************)
create_enhanced_expense(request, pool, rates, rows) ==
    LET net_amount == expense_net_amount(request)
        vat_calc   == calculate_vat(net_amount, request.vat_rate_id, None, Some(expense_business_usage(request)), pool, rates).response[1]
        row        == [company_id                |-> request.company_id,
                       expense_date              |-> request.expense_date[1],
                       net_amount                |-> net_amount,
                       vat_rate_id               |-> request.vat_rate_id,
                       vat_amount                |-> vat_calc.vat_amount,
                       gross_amount              |-> vat_calc.gross_amount,
                       business_usage_percentage |-> vat_calc.business_usage_percentage,
                       deductible_amount         |-> vat_calc.deductible_amount,
                       expense_type              |-> request.expense_type,
                       eworker_days              |-> IfTruthy(request.eworker_days),
                       eworker_rate              |-> IfTruthy(request.eworker_rate),
                       mileage_km                |-> IfTruthy(request.mileage_km),
                       mileage_rate              |-> IF request.expense_type = "mileage" THEN Some(get_irish_mileage_rate) ELSE None]
        result     == execute_query_rowcount(pool, 1)
        failed     == [status |-> 500, vat_calculation |-> None, calculated_net_amount |-> None, expenses |-> rows]
    IN  IF request.expense_date = None THEN failed
        ELSE IF result.raise THEN failed
        ELSE IF result.result = 0 THEN failed
        ELSE [status |-> 200, vat_calculation |-> Some(vat_calc), calculated_net_amount |-> Some(net_amount), expenses |-> Append(rows, row)]

(***************************************************************************)
(* POST /invoices/enhanced.                                                *)
(***************************************************************************)
create_enhanced_invoice(invoice, pool, rates, rows) ==
    LET vat_calc == calculate_vat(invoice.net_amount, invoice.vat_rate_id, None, None, pool, rates).response[1]
        row      == [company_id   |-> invoice.company_id,
                     issue_date   |-> invoice.issue_date[1],
                     net_amount   |-> invoice.net_amount,
                     vat_rate_id  |-> invoice.vat_rate_id,
                     vat_amount   |-> vat_calc.vat_amount,
                     gross_amount |-> vat_calc.gross_amount]
        result   == execute_query_rowcount(pool, 1)
        failed   == [status |-> 500, vat_calculation |-> None, invoices |-> rows]
    IN  IF invoice.issue_date = None THEN failed
        ELSE IF result.raise THEN failed
        ELSE IF result.result = 0 THEN failed
        ELSE [status |-> 200, vat_calculation |-> Some(vat_calc), invoices |-> Append(rows, row)]

ZeroSummary == [total_sales |-> 0, total_output_vat |-> 0, total_purchases |-> 0, total_input_vat |-> 0, net_vat_due |-> 0]

(***************************************************************************)
(* VATService.get_vat_summary_for_period.  Both queries run with           *)
(* fetch=False, so sales_result is the integer rowcount (1 for an          *)
(* aggregate SELECT) and sales_result[0][0] raises TypeError; the except   *)
(* branch returns the zero summary, as it does when the query raises.      *)
(***************************************************************************)
get_vat_summary_for_period(company_id, start_date, end_date, pool, inv, exp) ==
    LET sales_result == execute_query_rowcount(pool, 1)
        \* "sales_result[0][0] if sales_result else Decimal('0')" on an int
        subscript_raises == sales_result.result # 0
        total_sales      == 0
        total_output_vat == 0
        total_purchases  == 0
        total_input_vat  == 0
    IN  IF sales_result.raise \/ subscript_raises
        THEN ZeroSummary
        ELSE [total_sales |-> total_sales, total_output_vat |-> total_output_vat,
              total_purchases |-> total_purchases, total_input_vat |-> total_input_vat,
              net_vat_due |-> total_output_vat - total_input_vat]

\* Each of the expenses and invoices tables receives at most MaxRows rows
MaxRows == 1

Companies == { 1, 2 }

\* <<company_id, date>> of a posted request or invoice
Postings == { << 1, Some(1) >>, << 1, Some(5) >>, << 2, Some(1) >> }

ExpenseRequest(posting, net, rate_id, usage, type, days, rate, km) ==
    [company_id |-> posting[1], expense_date |-> posting[2], net_amount |-> net, vat_rate_id |-> rate_id, business_usage_percentage |-> usage, expense_type |-> type, eworker_days |-> days, eworker_rate |-> rate, mileage_km |-> km]

ExpenseRequests ==
    { ExpenseRequest(p, 1000, id, u, "general", None, None, None) : p \in Postings, id \in { None, Some(2) }, u \in { None, Some(0), Some(5000), Some(10000) } }
    \cup { ExpenseRequest(<< 1, Some(1) >>, 1000, None, Some(10000), "eworker", d, r, None) : d \in { None, Some(0), Some(200) }, r \in { None, Some(0), Some(50000) } }
    \cup { ExpenseRequest(<< 1, Some(1) >>, 1000, None, Some(10000), "mileage", None, None, km) : km \in { None, Some(0), Some(10000) } }
    \cup { ExpenseRequest(<< 1, None >>, 1000, None, None, "general", None, None, None) }

InvoiceRequests ==
    { [company_id |-> p[1], issue_date |-> p[2], net_amount |-> 10000, vat_rate_id |-> id] : p \in Postings \cup { << 1, None >> }, id \in { None, Some(2) } }

\* <<start_date, end_date>>
Periods == { << 1, 1 >>, << 1, 5 >>, << 6, 9 >> }

LedgerInit == Init

PostExpense ==
    /\ Len(expenses) < MaxRows
    /\ summary = None
    /\ \E request \in ExpenseRequests :
          LET out == create_enhanced_expense(request, connection_pool, vat_rates, expenses)
          IN  /\ expenses' = out.expenses
              /\ posted' = Some([op |-> "POST /expenses/enhanced", request |-> request, status |-> out.status, vat_calculation |-> out.vat_calculation])
    /\ UNCHANGED << vat_vars, attachment_vars, db_vars, invoices, summary >>

PostInvoice ==
    /\ Len(invoices) < MaxRows
    /\ summary = None
    /\ \E invoice \in InvoiceRequests :
          LET out == create_enhanced_invoice(invoice, connection_pool, vat_rates, invoices)
          IN  /\ invoices' = out.invoices
              /\ posted' = Some([op |-> "POST /invoices/enhanced", request |-> invoice, status |-> out.status, vat_calculation |-> out.vat_calculation])
    /\ UNCHANGED << vat_vars, attachment_vars, db_vars, expenses, summary >>

GetVatSummaryForPeriod ==
    /\ summary = None
    /\ \E company_id \in Companies, period \in Periods :
          summary' = Some([company_id |-> company_id, start_date |-> period[1], end_date |-> period[2],
                           returned |-> get_vat_summary_for_period(company_id, period[1], period[2], connection_pool, invoices, expenses)])
    /\ UNCHANGED << vat_vars, attachment_vars, db_vars, expenses, invoices, posted >>

LedgerNext ==
    \/ PostExpense
    \/ PostInvoice
    \/ GetVatSummaryForPeriod

LedgerSpec == LedgerInit /\ [][LedgerNext]_vars

(***************************************************************************)
(* database.execute_query, step by step.  Every endpoint is an "async def" *)
(* that calls execute_query without awaiting inside it, so the calls run   *)
(* one after another.  Each step either succeeds or raises; the exception  *)
(* is a string, "none" when nothing was raised.                            *)
(*                                                                         *)
(* Lines 52-57, get_db_connection: None when the pool is not initialised,  *)
(* else connection_pool.getconn(), which hands out an idle connection,     *)
(* opens a new one below MaxConnections, or raises.                        *)
(***************************************************************************)
get_db_connection(pool, idle, busy, fails) ==
    IF ~pool
    THEN [raise |-> "none", conn |-> None, pooled |-> idle, used |-> busy]
    ELSE LET free == (1 .. MaxConnections) \ busy
         IN  IF fails \/ free = { }
             THEN [raise |-> "PoolError", conn |-> None, pooled |-> idle, used |-> busy]
             ELSE LET conn == IF idle # { }
                              THEN CHOOSE c \in idle : \A d \in idle : c <= d
                              ELSE CHOOSE c \in free : \A d \in free : c <= d
                  IN  [raise |-> "none", conn |-> Some(conn),
                       pooled |-> idle \ { conn }, used |-> busy \cup { conn }]

\* A connection that is never handed back
return_db_connection_Keeping(conn, pool, idle, busy) == [pooled |-> idle, used |-> busy]

\* Lines 59-63: "if connection_pool: connection_pool.putconn(conn)"
return_db_connection(conn, pool, idle, busy) ==
    IF pool
    THEN [pooled |-> idle \cup { conn }, used |-> busy \ { conn }]
    ELSE [pooled |-> idle, used |-> busy]

\* conn.rollback(): the uncommitted changes of the connection are dropped
rollback(conn, pending) == [pending EXCEPT ![conn] = { }]

\* conn.commit(): the uncommitted changes of the connection become durable
commit(conn, pending, durable) == [transaction |-> [pending EXCEPT ![conn] = { }], committed |-> durable \cup pending[conn]]

\* Lines 109-115, the except block: roll back when a connection was obtained,
\* then print schema_aware_query, a local that is unbound when the failure
\* came before line 83, and re-raise
execute_query_except(q, pending) ==
    [transaction |-> IF q.conn # None THEN rollback(q.conn[1], pending) ELSE pending,
     raise       |-> IF q.schema_aware_query THEN q.e ELSE "UnboundLocalError"]

\* Lines 116-120, the finally block: close the cursor, hand the connection back
execute_query_finally(q, pool, idle, busy) ==
    IF q.conn # None
    THEN return_db_connection(q.conn[1], pool, idle, busy)
    ELSE [pooled |-> idle, used |-> busy]

\* execute_query is called at most MaxQueries times
MaxQueries == 3

\* query: a SELECT or a statement that changes rows; fetch as passed
QueryKinds == { "SELECT", "INSERT" }

DatabaseInit == Init

At(pc) == query # None /\ query[1].pc = pc

Goto(pc) == query' = Some([query[1] EXCEPT !.pc = pc])

Raise(e) == query' = Some([query[1] EXCEPT !.pc = "except", !.e = e, !.original = e])

\* Lines 73-76
ExecuteQuery ==
    /\ query = None
    /\ queries < MaxQueries
    /\ queries' = queries + 1
    /\ \E kind \in QueryKinds, fetch \in BOOLEAN :
          query' = Some([n |-> queries + 1, query |-> kind, fetch |-> fetch,
                         pc |-> "get_db_connection", conn |-> None,
                         cursor |-> FALSE, schema_aware_query |-> FALSE,
                         e |-> "none", original |-> "none", returned |-> FALSE])
    /\ UNCHANGED << vat_vars, attachment_vars, ledger_vars, pooled, used, transaction, committed, finished >>

\* Lines 77-80: a missing connection raises
GetDbConnection ==
    /\ At("get_db_connection")
    /\ \E fails \in BOOLEAN :
          LET got == get_db_connection(connection_pool, pooled, used, fails)
          IN  /\ pooled' = got.pooled
              /\ used' = got.used
              /\ IF got.raise # "none"
                 THEN Raise(got.raise)
                 ELSE IF got.conn = None
                 THEN Raise("Failed to get database connection")
                 ELSE query' = Some([query[1] EXCEPT !.conn = got.conn,
                                                     !.pc = "convert_legacy_query"])
    /\ UNCHANGED << vat_vars, attachment_vars, ledger_vars, transaction, committed, queries, finished >>

\* Line 83
ConvertLegacyQuery ==
    /\ At("convert_legacy_query")
    /\ \E fails \in BOOLEAN :
          IF fails
          THEN Raise("AttributeError")
          ELSE query' = Some([query[1] EXCEPT !.schema_aware_query = TRUE, !.pc = "cursor"])
    /\ UNCHANGED << vat_vars, attachment_vars, ledger_vars, pooled, used, transaction, committed, queries, finished >>

\* Line 85
Cursor ==
    /\ At("cursor")
    /\ \E fails \in BOOLEAN :
          IF fails
          THEN Raise("InterfaceError")
          ELSE query' = Some([query[1] EXCEPT !.cursor = TRUE, !.pc = "execute"])
    /\ UNCHANGED << vat_vars, attachment_vars, ledger_vars, pooled, used, transaction, committed, queries, finished >>

\* Line 86: a statement that changes rows leaves its changes uncommitted in
\* the transaction of the connection
Execute ==
    /\ At("execute")
    /\ \E fails \in BOOLEAN :
          IF fails
          THEN Raise("DatabaseError") /\ UNCHANGED transaction
          ELSE /\ transaction' = IF query[1].query = "SELECT" THEN transaction
                                 ELSE [transaction EXCEPT ![query[1].conn[1]] = @ \cup { query[1].n }]
               /\ Goto(IF query[1].fetch THEN "fetch" ELSE "commit")
    /\ UNCHANGED << vat_vars, attachment_vars, ledger_vars, pooled, used, committed, queries, finished >>

\* Lines 88-99: fetchall and return for a SELECT, fetchone before the commit
\* for any other statement
Fetch ==
    /\ At("fetch")
    /\ \E fails \in BOOLEAN :
          IF fails
          THEN Raise("ProgrammingError")
          ELSE IF query[1].query = "SELECT"
          THEN query' = Some([query[1] EXCEPT !.returned = TRUE, !.pc = "finally"])
          ELSE Goto("commit")
    /\ UNCHANGED << vat_vars, attachment_vars, ledger_vars, pooled, used, transaction, committed, queries, finished >>

\* Lines 100 and 105
Commit ==
    /\ At("commit")
    /\ \E fails \in BOOLEAN :
          IF fails
          THEN Raise("OperationalError") /\ UNCHANGED << transaction, committed >>
          ELSE LET done == commit(query[1].conn[1], transaction, committed)
               IN  /\ transaction' = done.transaction
                   /\ committed' = done.committed
                   /\ query' = Some([query[1] EXCEPT !.returned = TRUE, !.pc = "finally"])
    /\ UNCHANGED << vat_vars, attachment_vars, ledger_vars, pooled, used, queries, finished >>

\* Lines 109-115
Except ==
    /\ At("except")
    /\ LET handled == execute_query_except(query[1], transaction)
       IN  /\ transaction' = handled.transaction
           /\ query' = Some([query[1] EXCEPT !.e = handled.raise, !.pc = "finally"])
    /\ UNCHANGED << vat_vars, attachment_vars, ledger_vars, pooled, used, committed, queries, finished >>

\* Lines 116-120: the call ends, returning or raising
Finally ==
    /\ At("finally")
    /\ LET put == execute_query_finally(query[1], connection_pool, pooled, used)
       IN  /\ pooled' = put.pooled
           /\ used' = put.used
    /\ finished' = Some([n        |-> query[1].n,
                         query    |-> query[1].query,
                         fetch    |-> query[1].fetch,
                         conn     |-> query[1].conn,
                         raised   |-> query[1].e,
                         original |-> query[1].original,
                         returned |-> query[1].returned])
    /\ query' = None
    /\ UNCHANGED << vat_vars, attachment_vars, ledger_vars, transaction, committed, queries >>

DatabaseNext ==
    \/ ExecuteQuery
    \/ GetDbConnection
    \/ ConvertLegacyQuery
    \/ Cursor
    \/ Execute
    \/ Fetch
    \/ Commit
    \/ Except
    \/ Finally

DatabaseSpec == DatabaseInit /\ [][DatabaseNext]_vars

(***************************************************************************)
(* Vocabulary of the properties.                                           *)
(***************************************************************************)
Completed(ops) == call # None /\ call[1].op \in ops

ForwardOps == { "calculate_vat", "POST /vat/calculate" }

ReverseOps == { "calculate_vat_from_gross" }

\* The percentage argument is absent (a table rate or the default is used,
\* all of them non-negative) or non-negative.
RateArgNonNegative(c) ==
    c.vat_rate_percentage = None \/ c.vat_rate_percentage[1] >= 0

RateArgNegative(c) ==
    c.vat_rate_percentage # None /\ c.vat_rate_percentage[1] < 0

\* The business usage the caller asked for: 100.00 when the argument is absent
UsageAsked(c) ==
    IF c.business_usage_percentage = None THEN 10000
    ELSE c.business_usage_percentage[1]

WholeCents(amount) == amount % 10 = 0

\* mills is x (an amount of 1/scale cents) rounded half-up to whole cents, for
\* x >= 0: mills is a whole number of cents c with c - 1/2 <= x/scale < c + 1/2
IsHalfUpCents(mills, x, scale) ==
    /\ WholeCents(mills)
    /\ LET d == x - scale * (mills \div 10)
       IN  -scale <= 2 * d /\ 2 * d < scale

(***************************************************************************)
(* C1.  For every net_amount >= 0 and rate percentage >= 0, calculate_vat  *)
(* returns a result whose gross_amount is net_amount + vat_amount, and the *)
(* net_amount of the result is the input net amount unchanged.             *)
(***************************************************************************)
C1_GrossIsNetPlusVat ==
    (/\ Completed(ForwardOps)
     /\ call[1].amount >= 0
     /\ RateArgNonNegative(call[1]))
    => /\ response # None
       /\ response[1].net_amount = call[1].amount
       /\ response[1].gross_amount = response[1].net_amount + response[1].vat_amount

\* calculate_vat(1.005, 23.00): vat 0.23, gross 1.235
C1_Witness ==
    /\ Completed({ "calculate_vat" })
    /\ call[1].amount = 1005
    /\ call[1].vat_rate_percentage = Some(2300)
    /\ response # None
    /\ response[1].vat_amount = 230
    /\ response[1].gross_amount = 1235

(***************************************************************************)
(* C2.  For every net_amount >= 0 and rate percentage >= 0, calculate_vat  *)
(* returns vat_amount = net_amount * rate / 100 rounded to two decimals    *)
(* half-up: the whole number of cents c with c - 1/2 <= exact < c + 1/2,   *)
(* so an exact half cent goes up to the next cent.                         *)
(***************************************************************************)
C2_VatRoundedHalfUp ==
    (/\ Completed(ForwardOps)
     /\ call[1].amount >= 0
     /\ RateArgNonNegative(call[1]))
    => /\ response # None
       /\ IsHalfUpCents(response[1].vat_amount,
                        call[1].amount * response[1].vat_rate_percentage,
                        100000)

\* calculate_vat(0.01, 50.00): the exact VAT is 0.005, the result 0.01
C2_Witness ==
    /\ Completed({ "calculate_vat" })
    /\ call[1].amount = 10
    /\ call[1].vat_rate_percentage = Some(5000)
    /\ response # None
    /\ response[1].vat_amount = 10

(***************************************************************************)
(* C3.  For every gross_amount >= 0 and rate percentage >= 0,              *)
(* calculate_vat_from_gross returns net_amount = gross / (1 + rate/100)    *)
(* rounded half-up to two decimals and vat_amount = gross - net_amount, so *)
(* net_amount + vat_amount is the input gross_amount exactly.              *)
(***************************************************************************)
C3_NetFromGross ==
    (/\ Completed(ReverseOps)
     /\ call[1].amount >= 0
     /\ RateArgNonNegative(call[1]))
    => /\ response # None
       /\ IsHalfUpCents(response[1].net_amount,
                        call[1].amount * 1000,
                        10000 + response[1].vat_rate_percentage)
       /\ response[1].vat_amount = call[1].amount - response[1].net_amount
       /\ response[1].net_amount + response[1].vat_amount = call[1].amount
       /\ response[1].gross_amount = call[1].amount

\* calculate_vat_from_gross(0.03, 23.00): net 0.02 (0.0244 rounded), vat 0.01
C3_Witness ==
    /\ Completed(ReverseOps)
    /\ call[1].amount = 30
    /\ call[1].vat_rate_percentage = Some(2300)
    /\ response # None
    /\ response[1].net_amount = 20
    /\ response[1].vat_amount = 10

(***************************************************************************)
(* C4.  In calculate_vat and calculate_vat_from_gross the deductible       *)
(* amount is the net_amount of the result times the business usage         *)
(* percentage / 100, rounded half-up to two decimals; the usage is 100     *)
(* when the caller passes none; in calculate_vat_from_gross the net used   *)
(* is the derived, rounded net and not the gross.                          *)
(***************************************************************************)
C4_DeductibleOfResultNet ==
    (/\ Completed(ForwardOps \cup ReverseOps)
     /\ response # None
     /\ response[1].net_amount >= 0
     /\ UsageAsked(call[1]) >= 0)
    => /\ response[1].business_usage_percentage = UsageAsked(call[1])
       /\ IsHalfUpCents(response[1].deductible_amount,
                        response[1].net_amount * UsageAsked(call[1]),
                        100000)

\* calculate_vat_from_gross(100.00, 23.00, usage 50): net 81.30, deductible 40.65
C4_Witness ==
    /\ Completed(ReverseOps)
    /\ call[1].amount = 100000
    /\ call[1].business_usage_percentage = Some(5000)
    /\ response # None
    /\ response[1].net_amount = 81300
    /\ response[1].deductible_amount = 40650

(***************************************************************************)
(* C5 as claimed.  For all net_amount >= 0, rate >= 0 and business usage   *)
(* in [0, 100], calculate_vat returns deductible_amount <= net_amount, and *)
(* deductible_amount = net_amount when the usage is 100.                   *)
(***************************************************************************)
C5_Original ==
    (/\ Completed(ForwardOps)
     /\ call[1].amount >= 0
     /\ RateArgNonNegative(call[1])
     /\ UsageAsked(call[1]) >= 0 /\ UsageAsked(call[1]) <= 10000)
    => /\ response # None
       /\ response[1].deductible_amount <= response[1].net_amount
       /\ (UsageAsked(call[1]) = 10000
             => response[1].deductible_amount = response[1].net_amount)

(***************************************************************************)
(* C5, amended.  For every net_amount >= 0 that is a whole number of       *)
(* cents, every rate >= 0 and every business usage in [0, 100],            *)
(* calculate_vat returns deductible_amount <= net_amount, and              *)
(* deductible_amount = net_amount when the usage is 100.  (A net amount    *)
(* with a fraction of a cent is returned as passed while the deductible    *)
(* amount is rounded to cents, so 0.005 at usage 100 gives 0.01.)          *)
(***************************************************************************)
C5_DeductibleAtMostNet ==
    (/\ Completed(ForwardOps)
     /\ call[1].amount >= 0
     /\ WholeCents(call[1].amount)
     /\ RateArgNonNegative(call[1])
     /\ UsageAsked(call[1]) >= 0 /\ UsageAsked(call[1]) <= 10000)
    => /\ response # None
       /\ response[1].deductible_amount <= response[1].net_amount
       /\ (UsageAsked(call[1]) = 10000
             => response[1].deductible_amount = response[1].net_amount)

\* calculate_vat(0.01, usage 50): the exact deductible 0.005 rounds up to the net
C5_Witness ==
    /\ Completed({ "calculate_vat" })
    /\ call[1].amount = 10
    /\ call[1].business_usage_percentage = Some(5000)
    /\ response # None
    /\ response[1].deductible_amount = 10
    /\ response[1].net_amount = 10

(***************************************************************************)
(* C6 as claimed.  calculate_vat and calculate_vat_from_gross called with  *)
(* a negative amount or a negative rate percentage fail with an            *)
(* InvalidArgument error and return no calculation result.                 *)
(***************************************************************************)
C6_NegativeRejected ==
    (/\ Completed(ForwardOps \cup ReverseOps)
     /\ (call[1].amount < 0 \/ RateArgNegative(call[1])))
    => /\ raised = "InvalidArgument"
       /\ response = None

(***************************************************************************)
(* C7 as claimed.  calculate_vat and calculate_vat_from_gross called with  *)
(* a business usage percentage outside [0, 100] fail with an               *)
(* InvalidArgument error instead of returning a deductible amount.         *)
(***************************************************************************)
C7_UsageOutOfRangeRejected ==
    (/\ Completed(ForwardOps \cup ReverseOps)
     /\ (UsageAsked(call[1]) < 0 \/ UsageAsked(call[1]) > 10000))
    => /\ raised = "InvalidArgument"
       /\ response = None

(***************************************************************************)
(* Round trips.  GrossThenNet: calculate_vat has just been applied to the  *)
(* net_amount returned by calculate_vat_from_gross(g, r), g a whole number *)
(* of cents >= 0 and r >= 0.  NetThenGross: calculate_vat_from_gross has   *)
(* just been applied to the gross_amount returned by calculate_vat(x, r),  *)
(* x a whole number of cents >= 0 and r >= 0.                              *)
(***************************************************************************)
GrossThenNet ==
    /\ Completed({ "calculate_vat" })
    /\ prev # None
    /\ prev[1].call.op = "calculate_vat_from_gross"
    /\ prev[1].call.amount >= 0
    /\ WholeCents(prev[1].call.amount)
    /\ RateArgNonNegative(prev[1].call)

NetThenGross ==
    /\ Completed({ "calculate_vat_from_gross" })
    /\ prev # None
    /\ prev[1].call.op = "calculate_vat"
    /\ prev[1].call.amount >= 0
    /\ WholeCents(prev[1].call.amount)
    /\ RateArgNonNegative(prev[1].call)

\* g is the gross_amount calculate_vat returns for some whole-cent net
\* 0 <= n <= g under the rate arguments of call c
IsForwardGross(g, c) ==
    \E k \in 0 .. (g \div 10) :
        LET out == calculate_vat(10 * k, c.vat_rate_id, c.vat_rate_percentage, c.business_usage_percentage, connection_pool, vat_rates)
        IN  out.response # None /\ out.response[1].gross_amount = g

(***************************************************************************)
(* C8 as claimed.  For every whole-cent gross g >= 0 and rate r >= 0,      *)
(* re-applying calculate_vat to the net_amount returned by                 *)
(* calculate_vat_from_gross(g, r) yields gross_amount = g and the same     *)
(* vat_amount.                                                             *)
(***************************************************************************)
C8_Original ==
    GrossThenNet
    => /\ response # None
       /\ response[1].gross_amount = prev[1].call.amount
       /\ response[1].vat_amount = prev[1].response.vat_amount

(***************************************************************************)
(* C8, amended.  For every whole-cent gross g >= 0 and rate r >= 0,        *)
(* re-applying calculate_vat to the net_amount returned by                 *)
(* calculate_vat_from_gross(g, r) yields gross_amount = g and the same     *)
(* vat_amount exactly when g is a gross amount that calculate_vat produces *)
(* from some whole-cent net at rate r (as 100.00 and 123.00 at 23 are);    *)
(* for every other g, such as 0.03 at 23, it yields a different gross.     *)
(***************************************************************************)
C8_RoundTripIffForwardGross ==
    GrossThenNet
    => /\ response # None
       /\ (/\ response[1].gross_amount = prev[1].call.amount
           /\ response[1].vat_amount = prev[1].response.vat_amount)
          <=> IsForwardGross(prev[1].call.amount, prev[1].call)

\* calculate_vat_from_gross(100.00, 23.00) gives net 81.30, and
\* calculate_vat(81.30, 23.00) gives vat 18.70 and gross 100.00 again
C8_Witness ==
    /\ GrossThenNet
    /\ prev[1].call.amount = 100000
    /\ prev[1].call.vat_rate_percentage = Some(2300)
    /\ call[1].amount = 81300
    /\ response # None
    /\ response[1].vat_amount = 18700
    /\ response[1].gross_amount = 100000

C10_WorkedValues ==
    (call # None /\ call[1].vat_rate_percentage = Some(2300))
    => /\ (call[1].op = "calculate_vat" /\ call[1].amount = 100000)
            => /\ response # None
               /\ response[1].vat_amount = 23000
               /\ response[1].gross_amount = 123000
       /\ (call[1].op = "calculate_vat_from_gross" /\ call[1].amount = 123000)
            => /\ response # None
               /\ response[1].net_amount = 100000
               /\ response[1].vat_amount = 23000
       /\ (call[1].op = "calculate_vat_from_gross" /\ call[1].amount = 100000)
            => /\ response # None
               /\ response[1].net_amount = 81300
               /\ response[1].vat_amount = 18700

\* calculate_vat_from_gross(123.00, 23.00) answered, fed from
\* calculate_vat(100.00, 23.00)
C10_Witness ==
    /\ Completed({ "calculate_vat_from_gross" })
    /\ call[1].vat_rate_percentage = Some(2300)
    /\ call[1].amount = 123000
    /\ prev # None
    /\ prev[1].call.op = "calculate_vat"
    /\ prev[1].call.amount = 100000
    /\ prev[1].response.vat_amount = 23000
    /\ response # None
    /\ response[1].net_amount = 100000

\* The service operations, as opposed to the HTTP endpoint
ServiceOps == { "calculate_vat", "calculate_vat_from_gross" }

\* The vat_rates table has no active row with this id that a query can read
ResolvesNoRate(id) ==
    \/ ~connection_pool
    \/ id \notin DOMAIN vat_rates
    \/ ~vat_rates[id].is_active

\* The response is the one the operation computes at percentage pct
CalculatedAt(c, r, pct) ==
    /\ r.vat_rate_percentage = pct
    /\ IF c.op = "calculate_vat_from_gross"
       THEN /\ r.gross_amount = c.amount
            /\ r.net_amount = Quantize2(c.amount * 1000, 10000 + pct)
            /\ r.vat_amount = c.amount - r.net_amount
       ELSE /\ r.net_amount = c.amount
            /\ r.vat_amount = Quantize2(c.amount * pct, 100000)
            /\ r.gross_amount = c.amount + r.vat_amount

(***************************************************************************)
(* C11.  When calculate_vat or calculate_vat_from_gross is given a rate id *)
(* and no explicit percentage and the lookup resolves no rate, or is given *)
(* neither a rate id nor a percentage, the calculation uses the default    *)
(* percentage 23.00 and reports vat_rate_percentage = 23.00 in the result. *)
(***************************************************************************)
C11_DefaultRateWhenUnresolved ==
    (/\ Completed(ServiceOps)
     /\ call[1].vat_rate_percentage = None
     /\ \/ call[1].vat_rate_id = None
        \/ ResolvesNoRate(call[1].vat_rate_id[1]))
    => /\ response # None
       /\ CalculatedAt(call[1], response[1], 2300)

\* A rate id whose row create_vat_rate inserted inactive is passed with a
\* working pool, and the result reports 23.00
C11_Witness ==
    /\ Completed(ServiceOps)
    /\ connection_pool
    /\ call[1].vat_rate_percentage = None
    /\ call[1].vat_rate_id = Some(9)
    /\ 9 \in DOMAIN vat_rates
    /\ ~vat_rates[9].is_active
    /\ call[1].amount = 400
    /\ response # None
    /\ response[1].vat_rate_percentage = 2300
    /\ response[1].vat_amount \in { 90, 70 }

(***************************************************************************)
(* C12.  A failure to resolve a rate id during calculate_vat or            *)
(* calculate_vat_from_gross (no active rate for the id, or the lookup      *)
(* query raising an error) is surfaced to the caller as a RateNotFound     *)
(* failure: the call raises and returns no result.                         *)
(***************************************************************************)
C12_LookupFailureSurfaced ==
    (/\ Completed(ServiceOps)
     /\ call[1].amount >= 0
     /\ lookups # << >>
     /\ ResolvesNoRate(lookups[1]))
    => /\ raised = "RateNotFound"
       /\ response = None

\* The rows a query for this id can read
ActiveRow(id) == id \in DOMAIN vat_rates /\ vat_rates[id].is_active

(***************************************************************************)
(* C13.  get_vat_rate_percentage(rate_id) returns the rate_percentage of   *)
(* the vat_rates row with that id only if the row is active (and does so   *)
(* whenever the query can run); for an unknown id or an inactive row it    *)
(* returns None; and it never modifies the vat_rates table.                *)
(***************************************************************************)
C13_LookupActiveOnlyReadOnly ==
    /\ [](lookup # None =>
            LET id == lookup[1].vat_rate_id
                returned == lookup[1].returned
            IN  /\ returned # None =>
                     ActiveRow(id) /\ returned = Some(vat_rates[id].rate_percentage)
                /\ ~ActiveRow(id) => returned = None
                /\ (ActiveRow(id) /\ connection_pool) => returned # None)
    /\ [][lookup' # lookup => vat_rates' = vat_rates]_vars

\* Both outcomes: an inactive row's id gives None although the row has a
\* percentage, and the query could run
C13_Witness ==
    /\ lookup # None
    /\ connection_pool
    /\ lookup[1].vat_rate_id = 9
    /\ 9 \in DOMAIN vat_rates
    /\ ~vat_rates[9].is_active
    /\ vat_rates[9].rate_percentage = 480
    /\ lookup[1].returned = None

\* What the operation of call c returns with pool p and vat_rates table t
Recompute(c, p, t) ==
    IF c.op = "calculate_vat"
    THEN calculate_vat(c.amount, c.vat_rate_id, c.vat_rate_percentage, c.business_usage_percentage, p, t)
    ELSE calculate_vat_from_gross(c.amount, c.vat_rate_id, c.vat_rate_percentage, c.business_usage_percentage, p, t)

\* Other contents the vat_rates table can have at the time of a call
OtherVatRates ==
    { SeedVatRates,
      << >>,
      [i \in DOMAIN SeedVatRates |-> [rate_percentage |-> 480, is_active |-> TRUE]],
      [i \in DOMAIN SeedVatRates |-> [SeedVatRates[i] EXCEPT !.is_active = FALSE]] }

\* The completed call returned what it returns in every state of the
\* database, and asked the database nothing
SameInEveryState ==
    /\ lookups = << >>
    /\ \A p \in BOOLEAN : \A t \in OtherVatRates \cup { vat_rates } :
          Recompute(call[1], p, t) = [raised |-> raised, response |-> response]

(***************************************************************************)
(* C14 as stated.  Every calculator operation is pure: a call returns the  *)
(* same result for the same arguments whatever the vat_rates table and the *)
(* connection pool hold at the time of the call, and performs no I/O.      *)
(***************************************************************************)
C14_Original ==
    Completed(ServiceOps) => SameInEveryState

(***************************************************************************)
(* C14.  calculate_vat and calculate_vat_from_gross are pure whenever an   *)
(* explicit percentage is passed, or no rate id (or the id 0) is passed:   *)
(* the result then depends on the arguments only and no lookup is made.    *)
(* With a rate id and no percentage they query the vat_rates table once.   *)
(* calculate_eworker_expense and calculate_mileage_expense make no lookup. *)
(***************************************************************************)
C14_PureUnlessRateIdAlone ==
    /\ Completed(ServiceOps) =>
          IF \/ call[1].vat_rate_percentage # None
             \/ call[1].vat_rate_id \in { None, Some(0) }
          THEN SameInEveryState
          ELSE lookups = << call[1].vat_rate_id[1] >>
    /\ expense # None => lookups = << >>

\* A call with rate id 2 (13.50 in the table) and the explicit percentage
\* 23.00 is answered at 23.00 without a lookup
C14_Witness ==
    /\ Completed(ServiceOps)
    /\ call[1].vat_rate_id = Some(2)
    /\ response # None
    /\ call[1].vat_rate_percentage = Some(2300)
    /\ connection_pool
    /\ response[1].vat_rate_percentage = 2300
    /\ lookups = << >>

(***************************************************************************)
(* C15.  calculate_mileage_expense(km, rate_per_km) returns km * rate      *)
(* rounded half-up to two decimals for all km >= 0 and rate >= 0, uses     *)
(* 0.3708 as the rate when none is given, and returns 37.08 for km = 100   *)
(* at rate 0.3708.                                                         *)
(***************************************************************************)
C15_MileageExpense ==
    (/\ expense # None
     /\ expense[1].op = "calculate_mileage_expense")
    => LET e == expense[1]
           rate == IF e.rate = None THEN 3708 ELSE e.rate[1]
       IN  /\ (e.quantity >= 0 /\ rate >= 0) =>
                 IsHalfUpCents(e.returned, e.quantity * rate, 10000)
           /\ (e.quantity = 10000 /\ e.rate \in { None, Some(3708) }) =>
                 e.returned = 37080

\* 100 km with the rate omitted comes back as 37.08
C15_Witness ==
    /\ expense # None
    /\ expense[1].op = "calculate_mileage_expense"
    /\ expense[1].quantity = 10000
    /\ expense[1].rate = None
    /\ expense[1].returned = 37080

(***************************************************************************)
(* C16.  calculate_eworker_expense(days, daily_rate) returns days *        *)
(* daily_rate rounded half-up to two decimals for all days >= 0 and        *)
(* daily_rate >= 0, fractional days included, and returns 1250.00 for      *)
(* days = 5 at daily rate 250.00.                                          *)
(***************************************************************************)
C16_EworkerExpense ==
    (/\ expense # None
     /\ expense[1].op = "calculate_eworker_expense")
    => LET e == expense[1]
       IN  /\ (e.quantity >= 0 /\ e.rate[1] >= 0) =>
                 IsHalfUpCents(e.returned, e.quantity * e.rate[1], 1000)
           /\ (e.quantity = 500 /\ e.rate = Some(250000)) =>
                 e.returned = 1250000

\* Half a day at 0.01 is half a cent and comes back as 0.01
C16_Witness ==
    /\ expense # None
    /\ expense[1].op = "calculate_eworker_expense"
    /\ expense[1].quantity = 50
    /\ expense[1].rate = Some(10)
    /\ expense[1].returned = 10

\* The lower-cased extension of each filename the model validates
ExtensionOf(filename) ==
    CASE filename = << "t", "e", "s", "t", ".", "p", "d", "f" >> -> << "p", "d", "f" >>
      [] filename = << "r", "u", "n", ".", "e", "x", "e" >> -> << "e", "x", "e" >>
      [] filename = << "R", "U", "N", ".", "E", "X", "E" >> -> << "e", "x", "e" >>
      [] filename = << "a", ".", "j", "s" >> -> << "j", "s" >>
      [] filename = << "x", ".", "B", "a", "t" >> -> << "b", "a", "t" >>
      [] filename = << "n", ".", "t", "x", "t" >> -> << "t", "x", "t" >>
      [] filename = << "p", ".", "P", "N", "G" >> -> << "p", "n", "g" >>
      [] filename = << "a", ".", "t", "a", "r", ".", "g", "z" >> -> << "g", "z" >>
      [] filename = << "d", ".", "b", "i", "n" >> -> << "b", "i", "n" >>
      [] OTHER -> << >>

\* max_size of the extension's entry in SUPPORTED_TYPES, 25 MB when unlisted
MaxSizeFor(extension) ==
    IF \E t \in SUPPORTED_TYPES : t.extension = extension
    THEN (CHOOSE t \in SUPPORTED_TYPES : t.extension = extension).max_size
    ELSE 25 * 1024 * 1024

Dangerous ==
    { << "e", "x", "e" >>, << "b", "a", "t" >>, << "c", "m", "d" >>, << "c", "o", "m" >>,
      << "s", "c", "r" >>, << "v", "b", "s" >>, << "j", "s" >> }

(***************************************************************************)
(* C17.  validate_file(filename, size) reports the file valid exactly when *)
(* the filename is non-empty, size does not exceed the max_size of the     *)
(* extension's entry in SUPPORTED_TYPES (25 MB for an unlisted extension), *)
(* and the lower-cased extension is not one of exe, bat, cmd, com, scr,    *)
(* vbs, js; a 1024-byte test.pdf is valid, and a dangerous extension is    *)
(* rejected at every size.                                                 *)
(***************************************************************************)
C17_ValidateFile ==
    validation # None =>
        LET v == validation[1]
            extension == ExtensionOf(v.filename)
        IN  /\ v.is_valid <=> /\ v.filename # << >>
                              /\ v.file_size <= MaxSizeFor(extension)
                              /\ extension \notin Dangerous
            /\ (v.filename = << "t", "e", "s", "t", ".", "p", "d", "f" >> /\ v.file_size = 1024) => v.is_valid
            /\ extension \in Dangerous => ~v.is_valid

\* An upper-case RUN.EXE of 1024 bytes is refused for its type
C17_Witness ==
    /\ validation # None
    /\ validation[1].filename = << "R", "U", "N", ".", "E", "X", "E" >>
    /\ validation[1].file_size = 1024
    /\ ~validation[1].is_valid
    /\ validation[1].error_message = "File type is not allowed for security reasons"

\* The constructor was asked for the S3 backend and S3StorageManager raised
S3InitFailed ==
    /\ construction # None
    /\ lower(construction[1].storage_backend) = << "s", "3" >>
    /\ ~construction[1].s3_init

\* The manager is on the local backend with its directories set up, no
\* object has gone to S3, and a save that returned wrote a local file and a
\* row with storage_backend 'local' pointing at it
FellBackToLocal ==
    /\ manager # None
    /\ manager[1].storage_backend = << "l", "o", "c", "a", "l" >>
    /\ manager[1].local_storage
    /\ s3_objects = << >>
    /\ (saved # None /\ saved[1].returned # None) =>
          LET r == saved[1].returned[1]
          IN  /\ r.storage_backend = "local"
              /\ r.id \in DOMAIN attachments
              /\ attachments[r.id].storage_backend = "local"
              /\ attachments[r.id].file_path \in DOMAIN files
              /\ files[attachments[r.id].file_path].original_filename = saved[1].original_filename

(***************************************************************************)
(* C18 as stated.  Constructing UnifiedAttachmentManager with              *)
(* storage_backend 's3' when S3 initialisation fails never raises: the     *)
(* manager falls back to the local backend, and every later                *)
(* save_attachment stores the file locally and records storage_backend =   *)
(* 'local'.                                                                *)
(***************************************************************************)
C18_Original ==
    S3InitFailed => (construction[1].raised = "none" /\ FellBackToLocal)

(***************************************************************************)
(* C18.  When S3 initialisation fails, the constructor raises only if the  *)
(* local directories cannot be created either (the OSError of              *)
(* _setup_local_storage); otherwise the manager falls back to the local    *)
(* backend, and every later save_attachment that returns has stored the    *)
(* file locally and recorded storage_backend = 'local'.                    *)
(***************************************************************************)
C18_FallbackUnlessMkdirFails ==
    S3InitFailed =>
        IF construction[1].mkdir
        THEN construction[1].raised = "none" /\ FellBackToLocal
        ELSE construction[1].raised = "OSError" /\ manager = None /\ saved = None

\* After a failed S3 initialisation a 1024-byte test.pdf was saved locally
C18_Witness ==
    /\ S3InitFailed
    /\ construction[1].raised = "none"
    /\ manager # None
    /\ saved # None
    /\ saved[1].returned # None
    /\ saved[1].returned[1].storage_backend = "local"
    /\ Len(files) = 1
    /\ Len(attachments) = 1
    /\ attachments[1].storage_backend = "local"

(***************************************************************************)
(* C19.  When both a rate id and an explicit rate percentage are passed to *)
(* calculate_vat or calculate_vat_from_gross, the explicit percentage is   *)
(* used (an explicit 0 included) and no rate lookup is performed; a lookup *)
(* is performed only when the percentage is absent and a rate id is        *)
(* present, and then for that id.                                          *)
(***************************************************************************)
C19_ExplicitPercentageWins ==
    Completed(ServiceOps) =>
        LET c == call[1]
        IN  /\ c.vat_rate_percentage # None =>
                 /\ lookups = << >>
                 /\ response # None => CalculatedAt(c, response[1], c.vat_rate_percentage[1])
            /\ lookups # << >> =>
                 /\ c.vat_rate_percentage = None
                 /\ c.vat_rate_id # None
                 /\ lookups = << c.vat_rate_id[1] >>

\* Rate id 2 (13.50 in the table, which a query could read) is passed with
\* the explicit percentage 0: no lookup, and no VAT on 4.00
C19_Witness ==
    /\ Completed(ServiceOps)
    /\ connection_pool
    /\ call[1].vat_rate_id = Some(2)
    /\ call[1].vat_rate_percentage = Some(0)
    /\ call[1].amount = 400
    /\ lookups = << >>
    /\ response # None
    /\ response[1].vat_rate_percentage = 0
    /\ response[1].vat_amount = 0

(***************************************************************************)
(* C20.  For every request to POST /vat/calculate that supplies an         *)
(* explicit vat_rate_percentage p >= 0, the response has                   *)
(* vat_rate_percentage = p and vat_amount = round2(net_amount * p / 100);  *)
(* for p = 0 the vat_amount is 0 and gross_amount = net_amount.            *)
(***************************************************************************)
C20_EndpointUsesExplicitPercentage ==
    (/\ Completed({ "POST /vat/calculate" })
     /\ call[1].amount >= 0
     /\ call[1].vat_rate_percentage # None
     /\ call[1].vat_rate_percentage[1] >= 0)
    => /\ response # None
       /\ response[1].vat_rate_percentage = call[1].vat_rate_percentage[1]
       /\ response[1].vat_amount = Quantize2(call[1].amount * call[1].vat_rate_percentage[1], 100000)
       /\ call[1].vat_rate_percentage[1] = 0 =>
             /\ response[1].vat_amount = 0
             /\ response[1].gross_amount = response[1].net_amount

\* The expense request was stored: the row it produced
ExpenseStored ==
    /\ posted # None
    /\ posted[1].op = "POST /expenses/enhanced"
    /\ posted[1].status = 200

StoredExpense == expenses[Len(expenses)]

(***************************************************************************)
(* C21.  In create_enhanced_expense the net amount fed to the VAT          *)
(* calculation and stored is round2(eworker_days * eworker_rate) whenever  *)
(* expense_type is 'eworker' and both are supplied (not null, 0 included), *)
(* round2(mileage_km * 0.3708) whenever expense_type is 'mileage' and      *)
(* mileage_km is supplied, and the request's net_amount otherwise.         *)
(***************************************************************************)
C21_ExpenseNetAmount ==
    ExpenseStored =>
        LET e == posted[1].request
            net == IF e.expense_type = "eworker" /\ e.eworker_days # None /\ e.eworker_rate # None
                   THEN Quantize2(e.eworker_days[1] * e.eworker_rate[1], 1000)
                   ELSE IF e.expense_type = "mileage" /\ e.mileage_km # None
                   THEN Quantize2(e.mileage_km[1] * 3708, 10000)
                   ELSE e.net_amount
        IN  /\ StoredExpense.net_amount = net
            /\ posted[1].vat_calculation[1].net_amount = net

(***************************************************************************)
(* C22.  For every enhanced expense created with business_usage_percentage *)
(* b in [0, 100], the stored business_usage_percentage is b and the stored *)
(* deductible_amount is round2(net_amount * b / 100); 100 is substituted   *)
(* only when b is absent; b = 0 stores deductible_amount 0.                *)
(***************************************************************************)
C22_ExpenseBusinessUsage ==
    ExpenseStored =>
        LET e == posted[1].request
            b == IF e.business_usage_percentage = None THEN 10000 ELSE e.business_usage_percentage[1]
        IN  (0 <= b /\ b <= 10000) =>
               /\ StoredExpense.business_usage_percentage = b
               /\ StoredExpense.deductible_amount = Quantize2(StoredExpense.net_amount * b, 100000)
               /\ b = 0 => StoredExpense.deductible_amount = 0

RECURSIVE SumSeq(_)
SumSeq(values) == IF values = << >> THEN 0 ELSE Head(values) + SumSeq(Tail(values))

\* "WHERE company_id = %s AND <date> BETWEEN %s AND %s" for the summary asked
InPeriod(company, date) ==
    /\ company = summary[1].company_id
    /\ summary[1].start_date <= date
    /\ date <= summary[1].end_date

SalesIn(i) == InPeriod(invoices[i].company_id, invoices[i].issue_date)

PurchaseIn(i) == InPeriod(expenses[i].company_id, expenses[i].expense_date)

(***************************************************************************)
(* C24.  get_vat_summary_for_period(company, start, end) returns           *)
(* total_sales and total_output_vat as the sums of net_amount and          *)
(* vat_amount over the company's invoices in the period, total_purchases   *)
(* and total_input_vat as the sums of deductible_amount and vat_amount *   *)
(* business_usage_percentage / 100 over its expenses in the period, and    *)
(* net_vat_due = total_output_vat - total_input_vat, when the query        *)
(* succeeds; all five are 0 only when no row matches or the query fails.   *)
(***************************************************************************)
C24_VatSummary ==
    (summary # None /\ connection_pool) =>
        LET r == summary[1].returned
        IN  /\ r.total_sales = SumSeq([i \in DOMAIN invoices |-> IF SalesIn(i) THEN invoices[i].net_amount ELSE 0])
            /\ r.total_output_vat = SumSeq([i \in DOMAIN invoices |-> IF SalesIn(i) THEN invoices[i].vat_amount ELSE 0])
            /\ r.total_purchases = SumSeq([i \in DOMAIN expenses |-> IF PurchaseIn(i) THEN expenses[i].deductible_amount ELSE 0])
            /\ r.total_input_vat * 10000 = SumSeq([i \in DOMAIN expenses |-> IF PurchaseIn(i) THEN expenses[i].vat_amount * expenses[i].business_usage_percentage ELSE 0])
            /\ r.net_vat_due = r.total_output_vat - r.total_input_vat


(***************************************************************************)
(* C23 as claimed.  Every monetary field of the result of calculate_vat    *)
(* and calculate_vat_from_gross (net_amount, vat_amount, gross_amount,     *)
(* deductible_amount) is a whole number of cents for every non-negative    *)
(* input amount, inputs with more than two decimal places included.        *)
(***************************************************************************)
C23_Original ==
    (/\ Completed(ForwardOps \cup ReverseOps)
     /\ call[1].amount >= 0
     /\ RateArgNonNegative(call[1]))
    => /\ response # None
       /\ WholeCents(response[1].net_amount)
       /\ WholeCents(response[1].vat_amount)
       /\ WholeCents(response[1].gross_amount)
       /\ WholeCents(response[1].deductible_amount)

(***************************************************************************)
(* C23, amended.  For every non-negative input amount and rate, the        *)
(* fields the operations round are whole numbers of cents: vat_amount of   *)
(* calculate_vat, net_amount of calculate_vat_from_gross and               *)
(* deductible_amount of both.  The other fields (net_amount and            *)
(* gross_amount of calculate_vat, gross_amount and vat_amount of           *)
(* calculate_vat_from_gross) are whole numbers of cents exactly when the   *)
(* input amount is, because the input is returned as passed.               *)
(***************************************************************************)
C23_RoundedFieldsWholeCents ==
    (/\ Completed(ForwardOps \cup ReverseOps)
     /\ call[1].amount >= 0
     /\ RateArgNonNegative(call[1]))
    => /\ response # None
       /\ WholeCents(response[1].deductible_amount)
       /\ (call[1].op \in ForwardOps => WholeCents(response[1].vat_amount))
       /\ (call[1].op \in ReverseOps => WholeCents(response[1].net_amount))
       /\ (WholeCents(response[1].net_amount)
             <=> (call[1].op \in ReverseOps \/ WholeCents(call[1].amount)))
       /\ (WholeCents(response[1].vat_amount)
             <=> (call[1].op \in ForwardOps \/ WholeCents(call[1].amount)))
       /\ (WholeCents(response[1].gross_amount) <=> WholeCents(call[1].amount))

\* calculate_vat(1.005, 23.00): vat 0.23 and deductible 1.01 are whole cents,
\* net 1.005 and gross 1.235 are not
C23_Witness ==
    /\ Completed({ "calculate_vat" })
    /\ call[1].amount = 1005
    /\ call[1].vat_rate_percentage = Some(2300)
    /\ call[1].business_usage_percentage = None
    /\ response # None
    /\ response[1].vat_amount = 230
    /\ response[1].deductible_amount = 1010
    /\ response[1].gross_amount = 1235
    /\ ~WholeCents(response[1].net_amount)


(***************************************************************************)
(* C25.  create_vat_rate returns the new row's id whenever the INSERT      *)
(* succeeds and is committed, and None only when no row was inserted: a    *)
(* step that adds a row to vat_rates is a create_vat_rate that returned    *)
(* the id of that row, and a create_vat_rate that returned None left       *)
(* vat_rates unchanged.                                                    *)
(***************************************************************************)
C25_CreateReturnsId ==
    [][vat_rates' # vat_rates
         => /\ created' # None
            /\ created'[1].returned = Some(Len(vat_rates'))]_vars


\* The last execute_query call has ended by raising
QueryFailed == query = None /\ finished # None /\ finished[1].raised # "none"

(***************************************************************************)
(* C26.  After any sequence of execute_query calls, each succeeding or     *)
(* raising, no connection is checked out of the pool once the call has     *)
(* ended, and a call that failed has none of its changes committed or      *)
(* left uncommitted on a connection for a later commit to pick up.         *)
(***************************************************************************)
C26_ConnectionsReturnedAndRolledBack ==
    /\ query = None => used = { }
    /\ query = None => \A conn \in DOMAIN transaction : transaction[conn] = { }
    /\ QueryFailed => finished[1].n \notin committed

\* An INSERT failed at its commit on a connection taken from the pool, after
\* an earlier call had committed: the connection is idle again and only the
\* earlier call's changes are committed
C26_Witness ==
    /\ QueryFailed
    /\ finished[1].query = "INSERT"
    /\ finished[1].original = "OperationalError"
    /\ finished[1].conn # None
    /\ finished[1].conn[1] \in pooled
    /\ used = { }
    /\ committed = { finished[1].n - 1 }

(***************************************************************************)
(* C27.  On every failure path of execute_query, the case where no         *)
(* connection can be obtained because the pool is uninitialised included,  *)
(* the exception that reaches the caller is the original failure (for a    *)
(* missing connection, "Failed to get database connection").               *)
(***************************************************************************)
C27_OriginalExceptionReachesCaller ==
    QueryFailed
    => /\ finished[1].raised = finished[1].original
       /\ (~connection_pool => finished[1].raised = "Failed to get database connection")


(***************************************************************************)
(* C28.  save_attachment is all-or-nothing: if it raises at any step       *)
(* (validation, disk or S3 write, metadata INSERT), no new file or S3      *)
(* object and no new attachments row exist afterwards; if it returns, the  *)
(* stored content and exactly one new row pointing at it exist.            *)
(***************************************************************************)
C28_SaveAllOrNothing ==
    [][saved' # saved
         => IF saved'[1].raised # "none"
            THEN files' = files /\ s3_objects' = s3_objects /\ attachments' = attachments
            ELSE /\ Len(attachments') = Len(attachments) + 1
                 /\ Len(files') + Len(s3_objects') = Len(files) + Len(s3_objects) + 1]_vars

\* delete_attachment or get_attachment was last called with the company_id of
\* another company than the one owning the attachment
NonOwnerAccess ==
    /\ access # None
    /\ access[1].company_id # None
    /\ RowExists(access[1].attachment_id, attachments, access[1].before)
    /\ attachments[access[1].attachment_id].company_id # access[1].company_id[1]

(***************************************************************************)
(* C29.  delete_attachment and get_attachment called with a company_id     *)
(* that is not the owning company have no effect and reveal nothing: no    *)
(* stored file, S3 object or row is removed, no content is read or         *)
(* returned; when the lookup runs, delete_attachment returns False and     *)
(* get_attachment raises FileNotFoundError, and when it cannot run both    *)
(* raise its error.                                                        *)
(***************************************************************************)
C29_NonOwnerHasNoAccess ==
    NonOwnerAccess
    => /\ ~access[1].read
       /\ access[1].returned \in { None, Some(FALSE) }
       /\ migration = None => removed = access[1].before
       /\ IF ~connection_pool THEN access[1].raised = "Exception"
          ELSE IF access[1].op = "delete_attachment"
          THEN access[1].raised = "none" /\ access[1].returned = Some(FALSE)
          ELSE access[1].raised = "FileNotFoundError" /\ access[1].returned = None

\* Company 0 asked to delete a stored local attachment of company 7: False is
\* returned, the row and the file are still there
C29_Witness ==
    /\ NonOwnerAccess
    /\ access[1].op = "delete_attachment"
    /\ access[1].company_id = Some(0)
    /\ attachments[access[1].attachment_id].company_id = 7
    /\ attachments[access[1].attachment_id].storage_backend = "local"
    /\ access[1].returned = Some(FALSE)
    /\ RowExists(access[1].attachment_id, attachments, removed)
    /\ LocalFileExists(attachments[access[1].attachment_id].file_path, files, removed)

\* The backend a row names holds the content
RowHasContent(id) ==
    IF attachments[id].storage_backend = "s3"
    THEN S3ObjectExists(attachments[id].file_path, s3_objects, removed)
    ELSE LocalFileExists(attachments[id].file_path, files, removed)

MigrationAt(pc) == migration # None /\ migration[1].pc = pc

=============================================================================
